---- MODULE Spec2Model ----
(***************************************************************************)
(* The World / Vm tick engine of harimu (src/src/modules/vm.rs) as a state *)
(* machine: spawn_agent_with_age, kill_agent, seed_ore_source,             *)
(* set_max_qi_supply and step, each one atomic action.                     *)
(*                                                                         *)
(* Qi (u32) and the u64 counters are modelled as unbounded naturals: the   *)
(* bounds below keep every value far under 2^32, so the saturating         *)
(* additions of the source never saturate here. The coordinates and the    *)
(* deltas of a Move are i32 and keep their width: where dx.abs() or        *)
(* Position::offset overflows, a build with overflow checks panics and a   *)
(* build without them wraps; step has both outcomes.                       *)
(***************************************************************************)
EXTENDS Integers, Sequences, FiniteSets, TLC

\* ---------------------------------------------------------------- constants
ZONE_SIZE == 16
SCAN_RANGE == 8
HARVEST_RANGE == 1
HARVEST_PER_ACTION == 3
DEFAULT_MAX_AGENT_AGE == 112
MAX_MOVE_RADIUS == 3
\* i32::MAX and i32::MIN
I32_MAX == 2147483647
I32_MIN == -I32_MAX - 1

\* ------------------------------------------------------------------- bounds
\* calls of the driver per behaviour: a spawn, a kill and a step with no request
\* count 1, a step with n requests counts n; seeding and the cap are set-up
MaxCalls == 4
\* agents the driver spawns (children of a reproduction come on top)
MaxSpawn == 2
\* ore sources of a world drawn for the recharge alone
MaxSources == 2
\* ticks of a driver that sends one request of any kind per tick
MaxTicks == 3

\* ------------------------------------------------------------------ helpers
Abs(x) == IF x < 0 THEN -x ELSE x

\* i32::abs: -x does not fit for i32::MIN; without overflow checks it stays i32::MIN
AbsI32(x) ==
    IF x = I32_MIN THEN [ v |-> I32_MIN, overflow |-> TRUE ]
    ELSE [ v |-> Abs(x), overflow |-> FALSE ]

\* i32::MIN - a for a < 0, with every intermediate value in the i32 range
BelowBy(a) == (I32_MIN + 1) + (0 - (a + 1))

\* a + b on i32: the sum modulo 2^32 when it does not fit
AddI32(a, b) ==
    IF a >= 0 /\ b > 0 /\ b > I32_MAX - a
    THEN [ v |-> I32_MIN + (b - (I32_MAX - a) - 1), overflow |-> TRUE ]
    ELSE IF a < 0 /\ b < 0 /\ b < BelowBy(a)
    THEN [ v |-> I32_MAX - (BelowBy(a) + (0 - (b + 1))), overflow |-> TRUE ]
    ELSE [ v |-> a + b, overflow |-> FALSE ]

\* a minimum that keeps its first argument
MinFirst(a, b) == a

Min(a, b) == IF a < b THEN a ELSE b

Max(a, b) == IF a > b THEN a ELSE b

\* a - b on unsigned integers, stopping at 0
SatSub(a, b) == IF a < b THEN 0 ELSE a - b

NoneOpt == [some |-> FALSE]

Some(v) == [some |-> TRUE, v |-> v]

RECURSIVE SumSeq(_)
SumSeq(s) == IF s = <<>> THEN 0 ELSE Head(s) + SumSeq(Tail(s))

\* the sequences over S of length at most n
SeqsUpTo(S, n) == UNION {[1..k -> S] : k \in 0..n}

\* the orders (sequences without repetition) of the finite set S
RECURSIVE Orders(_)
Orders(S) ==
    IF S = {} THEN {<<>>}
    ELSE UNION {{<<x>> \o rest : rest \in Orders(S \ {x})} : x \in S}

\* ---------------------------------------------------------------- positions
Pos(x, y, z) == [x |-> x, y |-> y, z |-> z]

Origin == Pos(0, 0, 0)

Offset(p, dx, dy, dz) == Pos(AddI32(p.x, dx).v, AddI32(p.y, dy).v, AddI32(p.z, dz).v)

\* one of the three additions of Position::offset does not fit in an i32
OffsetOverflows(p, dx, dy, dz) ==
    AddI32(p.x, dx).overflow \/ AddI32(p.y, dy).overflow \/ AddI32(p.z, dz).overflow

\* div_euclid by a positive divisor is the floor division, as \div is
ZoneOf(p) == [x |-> p.x \div ZONE_SIZE, y |-> p.y \div ZONE_SIZE, z |-> p.z \div ZONE_SIZE]

\* a - b on i32: the wrapped value, and whether the subtraction overflowed
SubI32(a, b) ==
    IF b < 0 /\ a > I32_MAX + b
    THEN [ v |-> I32_MIN + ((a - 1) - (I32_MAX + b)), overflow |-> TRUE ]
    ELSE IF b > 0 /\ a < I32_MIN + b
    THEN [ v |-> I32_MAX - (((I32_MIN + b) - 1) - a), overflow |-> TRUE ]
    ELSE [ v |-> a - b, overflow |-> FALSE ]

\* (a - b).abs() on i32
AbsDiff(a, b) ==
    [ v |-> AbsI32(SubI32(a, b).v).v,
      overflow |-> SubI32(a, b).overflow \/ AbsI32(SubI32(a, b).v).overflow ]

WithinRange(p, other, range) ==
    /\ AbsDiff(p.x, other.x).v <= range
    /\ AbsDiff(p.y, other.y).v <= range
    /\ AbsDiff(p.z, other.z).v <= range

\* a subtraction or an abs of within_range overflows
RangeOverflows(p, other) ==
    \/ AbsDiff(p.x, other.x).overflow
    \/ AbsDiff(p.y, other.y).overflow
    \/ AbsDiff(p.z, other.z).overflow

\* ---------------------------------------------------------------- HashMap
\* A HashMap is a function on the set of its keys.
EmptyMap == [k \in {} |-> 0]

\* a lookup that finds no key
MapHasNothing(m, k) == FALSE

MapHas(m, k) == k \in DOMAIN m

MapInsert(m, k, v) == [x \in (DOMAIN m) \cup {k} |-> IF x = k THEN v ELSE m[x]]

\* a remove that leaves the entry in place
MapRemoveNothing(m, k) == m

MapRemove(m, k) == [x \in (DOMAIN m) \ {k} |-> m[x]]

\* --------------------------------------------------------------------- state
VARIABLES
    world,    \* the World owned by the Vm
    result,   \* what the last call returned (a TickResult for step)
    batch,    \* history: the request list of the last step
    trace,    \* history: per request of the last step, the world before and after
    calls,    \* history: calls made so far
    menu      \* the driver of this behaviour: "life", "ore", "spawn" or "wallet"

vars == <<world, result, batch, trace, calls, menu>>

NewWorld ==
    [ tick |-> 0,
      next_agent_id |-> 1,
      next_structure_id |-> 1,
      next_qi_source_id |-> 1,
      max_qi_supply |-> NoneOpt,
      recycled_qi |-> 0,
      agents |-> <<>>,
      events |-> <<>>,
      occupied |-> EmptyMap,
      structures |-> <<>>,
      qi_sources |-> <<>> ]

\* agents: HashMap<AgentId, Agent>; ids are 1..n and no entry is ever removed,
\* so the map is the sequence of the agents by id
HasAgent(w, id) == id \in 1..Len(w.agents)

\* ------------------------------------------------------------- World methods
RECURSIVE FreeCell(_, _)
FreeCell(occupied, pos) ==
    IF MapHas(occupied, pos) THEN FreeCell(occupied, Offset(pos, 1, 0, 0)) ELSE pos

\* whether the search for a free cell steps past x = i32::MAX
RECURSIVE FreeCellOverflows(_, _)
FreeCellOverflows(occupied, pos) ==
    /\ MapHas(occupied, pos)
    /\ \/ OffsetOverflows(pos, 1, 0, 0)
       \/ FreeCellOverflows(occupied, Offset(pos, 1, 0, 0))

\* a spawn that leaves the id counter where it was
SpawnAgentSameId(w, name, qi, position, max_age) ==
    LET pos == FreeCell(w.occupied, position)
        agent_id == w.next_agent_id
        agent == [ id |-> agent_id,
                   name |-> name,
                   qi |-> qi,
                   transistors |-> 0,
                   position |-> pos,
                   alive |-> TRUE,
                   age |-> 0,
                   max_age |-> Max(max_age, 1),
                   discovered_zones |-> {ZoneOf(pos)} ]
    IN  [ world |-> [w EXCEPT
                       !.next_agent_id = agent_id,
                       !.events = Append(@, [type |-> "AgentSpawned", agent_id |-> agent_id,
                                             name |-> name, qi |-> qi, position |-> pos]),
                       !.agents = Append(@, agent),
                       !.occupied = MapInsert(@, pos, agent_id)],
          id |-> agent_id ]

SpawnAgentWithAge(w, name, qi, position, max_age) ==
    LET pos == FreeCell(w.occupied, position)
        agent_id == w.next_agent_id
        agent == [ id |-> agent_id,
                   name |-> name,
                   qi |-> qi,
                   transistors |-> 0,
                   position |-> pos,
                   alive |-> TRUE,
                   age |-> 0,
                   max_age |-> Max(max_age, 1),
                   discovered_zones |-> {ZoneOf(pos)} ]
    IN  [ world |-> [w EXCEPT
                       !.next_agent_id = agent_id + 1,
                       !.events = Append(@, [type |-> "AgentSpawned", agent_id |-> agent_id,
                                             name |-> name, qi |-> qi, position |-> pos]),
                       !.agents = Append(@, agent),
                       !.occupied = MapInsert(@, pos, agent_id)],
          id |-> agent_id ]

SpawnAgentDefault(w, name, qi, position) ==
    SpawnAgentWithAge(w, name, qi, position, DEFAULT_MAX_AGENT_AGE)

SetMaxQiSupplyOf(w, max) == [w EXCEPT !.max_qi_supply = Some(max)]

\* a pool that never receives what was spent
RecycleQiLost(w, amount) == w

RecycleQi(w, amount) == [w EXCEPT !.recycled_qi = @ + amount]

TotalQiSupply(w) ==
    LET agents_qi == SumSeq([i \in 1..Len(w.agents) |-> w.agents[i].qi])
        sources_qi == SumSeq([i \in 1..Len(w.qi_sources) |->
                                 IF w.qi_sources[i].ore = "Qi" THEN w.qi_sources[i].current ELSE 0])
    IN  agents_qi + sources_qi + w.recycled_qi

AddQiSource(w, ore, position, capacity, recharge_per_tick) ==
    LET id == w.next_qi_source_id
    IN  [w EXCEPT
           !.next_qi_source_id = id + 1,
           !.qi_sources = Append(@, [ id |-> id, ore |-> ore, position |-> position,
                                      capacity |-> capacity, current |-> capacity,
                                      recharge_per_tick |-> recharge_per_tick ])]

\* One iteration of the loop of recharge_qi_sources. qi_budget is an option:
\* NoneOpt stands for u64::MAX (no cap set), which no mint ever exhausts.
RechargeOne(source, qi_budget, pool) ==
    IF source.ore # "Qi"
    THEN [ source |-> [source EXCEPT !.current =
                          Min(source.current + source.recharge_per_tick, source.capacity)],
           qi_budget |-> qi_budget, pool |-> pool, minted |-> 0 ]
    ELSE
    LET headroom == SatSub(source.capacity, source.current)
        allowance == source.recharge_per_tick
        from_pool == Min(Min(pool, headroom), allowance)
        current1 == IF from_pool > 0
                    THEN Min(source.current + from_pool, source.capacity)
                    ELSE source.current
        pool1 == IF from_pool > 0 THEN SatSub(pool, from_pool) ELSE pool
        remaining_allowance == SatSub(allowance, from_pool)
        remaining_headroom == Min(SatSub(headroom, from_pool), source.capacity - current1)
        budget_left == (~qi_budget.some) \/ qi_budget.v > 0
        uncapped_mint == Min(remaining_allowance, remaining_headroom)
        mint == IF remaining_allowance > 0 /\ remaining_headroom > 0 /\ budget_left
                THEN (IF qi_budget.some THEN Min(uncapped_mint, qi_budget.v) ELSE uncapped_mint)
                ELSE 0
        current2 == IF mint > 0 THEN Min(current1 + mint, source.capacity) ELSE current1
        budget2 == IF mint > 0 /\ qi_budget.some THEN Some(SatSub(qi_budget.v, mint)) ELSE qi_budget
    IN  IF headroom = 0
        THEN [ source |-> source, qi_budget |-> qi_budget, pool |-> pool, minted |-> 0 ]
        ELSE [ source |-> [source EXCEPT !.current = current2],
               qi_budget |-> budget2, pool |-> pool1, minted |-> mint ]

\* the loop over the sources, in list order, from index i on
RECURSIVE RechargeFrom(_, _, _, _)
RechargeFrom(sources, i, qi_budget, pool) ==
    IF i > Len(sources) THEN [ sources |-> sources, pool |-> pool ]
    ELSE LET r == RechargeOne(sources[i], qi_budget, pool)
         IN  RechargeFrom([sources EXCEPT ![i] = r.source], i + 1, r.qi_budget, r.pool)

\* a budget that forgets the Qi already in the system
QiBudgetStale(w) ==
    IF w.max_qi_supply.some THEN Some(w.max_qi_supply.v) ELSE NoneOpt

\* qi_budget at the start of recharge_qi_sources
QiBudget(w) ==
    IF w.max_qi_supply.some
    THEN Some(SatSub(w.max_qi_supply.v, TotalQiSupply(w)))
    ELSE NoneOpt

\* a recharge that leaves the recycled pool as it found it
RechargedPoolKept(w, r) == [w EXCEPT !.qi_sources = r.sources]

Recharged(w, r) == [w EXCEPT !.qi_sources = r.sources, !.recycled_qi = r.pool]

RechargeQiSources(w) == Recharged(w, RechargeFrom(w.qi_sources, 1, QiBudget(w), w.recycled_qi))

NearbyQiSources(w, position, range) ==
    LET near == SelectSeq(w.qi_sources, LAMBDA s : WithinRange(s.position, position, range))
    IN  [i \in 1..Len(near) |->
            [ id |-> near[i].id, ore |-> near[i].ore, position |-> near[i].position,
              available |-> near[i].current, capacity |-> near[i].capacity ]]

NearbyStructures(w, position, range) ==
    LET near == SelectSeq(w.structures, LAMBDA s : WithinRange(s.position, position, range))
    IN  [i \in 1..Len(near) |->
            [ id |-> near[i].id, kind |-> near[i].kind, position |-> near[i].position ]]

\* nearest_ore_source: the first source of the least Manhattan distance among
\* the non-empty sources of the kind within SCAN_RANGE; NoneOpt when there is none
Manhattan(p, q) ==
    AddI32(AddI32(AbsDiff(p.x, q.x).v, AbsDiff(p.y, q.y).v).v, AbsDiff(p.z, q.z).v).v

\* an operation of the distance sum overflows
ManhattanOverflows(p, q) ==
    \/ RangeOverflows(p, q)
    \/ AddI32(AbsDiff(p.x, q.x).v, AbsDiff(p.y, q.y).v).overflow
    \/ AddI32(AddI32(AbsDiff(p.x, q.x).v, AbsDiff(p.y, q.y).v).v, AbsDiff(p.z, q.z).v).overflow

\* the arithmetic of nearest_ore_source overflows at one of the sources it measures
NearestOverflows(sources, ore, position) ==
    \E i \in DOMAIN sources :
        /\ sources[i].ore = ore
        /\ sources[i].current # 0
        /\ \/ RangeOverflows(position, sources[i].position)
           \/ /\ WithinRange(position, sources[i].position, SCAN_RANGE)
              /\ ManhattanOverflows(position, sources[i].position)

RECURSIVE NearestFrom(_, _, _, _, _)
NearestFrom(sources, i, ore, position, best) ==
    IF i > Len(sources) THEN best
    ELSE LET src == sources[i]
             skip == \/ src.ore # ore
                     \/ src.current = 0
                     \/ ~WithinRange(position, src.position, SCAN_RANGE)
             dist == Manhattan(position, src.position)
             best1 == IF skip THEN best
                      ELSE IF best.some
                           THEN (IF dist < best.v.dist THEN Some([dist |-> dist, src |-> src]) ELSE best)
                           ELSE Some([dist |-> dist, src |-> src])
         IN  NearestFrom(sources, i + 1, ore, position, best1)

NearestOreSource(sources, ore, position) ==
    LET best == NearestFrom(sources, 1, ore, position, NoneOpt)
    IN  IF best.some THEN Some(best.v.src) ELSE NoneOpt

\* the first source with the id and the ore kind (Iterator::find), as an index; 0 if none
FindSource(sources, source_id, ore) ==
    LET hits == {i \in 1..Len(sources) : sources[i].id = source_id /\ sources[i].ore = ore}
    IN  IF hits = {} THEN 0 ELSE CHOOSE i \in hits : \A j \in hits : i <= j

\* ------------------------------------------------------------- Agent methods
\* a spend that checks the balance and deducts nothing
SpendQiFree(agent, amount) ==
    IF agent.qi < amount
    THEN [ ok |-> FALSE, agent |-> agent,
           error |-> [ type |-> "InsufficientQi", agent_id |-> agent.id,
                       required |-> amount, available |-> agent.qi ] ]
    ELSE [ ok |-> TRUE, agent |-> agent ]

SpendQi(agent, amount) ==
    IF agent.qi < amount
    THEN [ ok |-> FALSE, agent |-> agent,
           error |-> [ type |-> "InsufficientQi", agent_id |-> agent.id,
                       required |-> amount, available |-> agent.qi ] ]
    ELSE [ ok |-> TRUE, agent |-> [agent EXCEPT !.qi = @ - amount] ]

\* a credit that books every ore as Qi
GainOreAsQi(agent, ore, amount) == [agent EXCEPT !.qi = @ + amount]

GainOre(agent, ore, amount) ==
    IF ore = "Qi" THEN [agent EXCEPT !.qi = @ + amount]
    ELSE [agent EXCEPT !.transistors = @ + amount]

\* a spend of ore that checks the balance and deducts nothing
SpendOreFree(agent, ore, amount) ==
    IF ore = "Qi" THEN SpendQi(agent, amount)
    ELSE IF agent.transistors < amount
         THEN [ ok |-> FALSE, agent |-> agent,
                error |-> [ type |-> "InsufficientOre", agent_id |-> agent.id, ore |-> ore,
                            required |-> amount, available |-> agent.transistors ] ]
         ELSE [ ok |-> TRUE, agent |-> agent ]

SpendOre(agent, ore, amount) ==
    IF ore = "Qi" THEN SpendQi(agent, amount)
    ELSE IF agent.transistors < amount
         THEN [ ok |-> FALSE, agent |-> agent,
                error |-> [ type |-> "InsufficientOre", agent_id |-> agent.id, ore |-> ore,
                            required |-> amount, available |-> agent.transistors ] ]
         ELSE [ ok |-> TRUE, agent |-> [agent EXCEPT !.transistors = @ - amount] ]

\* Action::qi_cost
QiCost(action) ==
    CASE action.kind \in {"Scan", "Idle"} -> 0
      [] action.kind = "Move" -> 0
      [] action.kind = "Reproduce" -> 0
      [] action.kind = "BuildStructure" -> 1
      [] action.kind = "HarvestOre" -> 1

\* Action::label
Label(action) ==
    CASE action.kind = "Scan" -> "scan"
      [] action.kind = "Move" -> "move"
      [] action.kind = "Reproduce" -> "reproduce"
      [] action.kind = "BuildStructure" -> "build_structure"
      [] action.kind = "HarvestOre" -> "harvest"
      [] action.kind = "Idle" -> "idle"

\* ------------------------------------------------------------ apply_action
\* Each arm of the match of apply_action gives: ok, the world as the arm leaves
\* it (an arm that returns Err keeps what it wrote before), the events, the
\* error, reclaimed_qi and the pending child, scan or harvest.
NoPending == [ child |-> NoneOpt, scan |-> NoneOpt, harvest |-> NoneOpt ]

ArmErr(w, error) ==
    [ ok |-> FALSE, world |-> w, events |-> <<>>, error |-> error,
      reclaimed_qi |-> 0, pending |-> NoPending, overflow |-> FALSE ]

ArmOk(w, events, reclaimed_qi, pending) ==
    [ ok |-> TRUE, world |-> w, events |-> events, error |-> NoneOpt,
      reclaimed_qi |-> reclaimed_qi, pending |-> pending, overflow |-> FALSE ]

QiSpentEvent(agent_id, amount, action) ==
    [ type |-> "QiSpent", agent_id |-> agent_id, amount |-> amount, action |-> Label(action) ]

\* dx.abs().max(dy.abs()).max(dz.abs()), an abs that overflowed left as it wrapped
MaxDelta(action) ==
    Max(Max(AbsI32(action.dx).v, AbsI32(action.dy).v), AbsI32(action.dz).v)

\* the arithmetic of the Move arm overflows: an abs of the range check, or, once
\* the range check has passed, an addition of position.offset
MoveOverflows(position, action) ==
    \/ AbsI32(action.dx).overflow
    \/ AbsI32(action.dy).overflow
    \/ AbsI32(action.dz).overflow
    \/ /\ MaxDelta(action) <= MAX_MOVE_RADIUS
       /\ OffsetOverflows(position, action.dx, action.dy, action.dz)

\* the Move arm with wrapping arithmetic
MoveWrapping(w, id, action) ==
    LET agent == w.agents[id]
        dx == action.dx
        dy == action.dy
        dz == action.dz
        max_delta == MaxDelta(action)
        from == agent.position
        to == Offset(agent.position, dx, dy, dz)
        from_zone == ZoneOf(from)
        to_zone == ZoneOf(to)
        agent1 == IF from_zone # to_zone /\ to_zone \notin agent.discovered_zones
                  THEN [agent EXCEPT !.discovered_zones = @ \cup {to_zone}]
                  ELSE agent
        spent == SpendQi(agent1, 1)
        agent2 == [spent.agent EXCEPT !.position = to]
    IN  IF max_delta > MAX_MOVE_RADIUS
        THEN ArmErr(w, [ type |-> "MoveOutOfRange", agent_id |-> agent.id,
                         dx |-> dx, dy |-> dy, dz |-> dz ])
        ELSE IF MapHas(w.occupied, to) /\ w.occupied[to] # agent.id
        THEN ArmErr(w, [ type |-> "PositionOccupied", agent_id |-> agent.id,
                         target |-> to, occupied_by |-> w.occupied[to] ])
        ELSE IF ~spent.ok
        THEN ArmErr([w EXCEPT !.agents[id] = agent1], spent.error)
        ELSE ArmOk([w EXCEPT !.agents[id] = agent2,
                             !.occupied = MapInsert(MapRemove(@, from), to, agent.id)],
                   << QiSpentEvent(agent.id, 1, action),
                      [ type |-> "AgentMoved", agent_id |-> agent.id, from |-> from, to |-> to ] >>,
                   1, NoPending)

ArmMove(w, id, action) ==
    [MoveWrapping(w, id, action) EXCEPT
        !.overflow = MoveOverflows(w.agents[id].position, action)]

ArmScan(w, id, action) ==
    LET agent == w.agents[id]
    IN  ArmOk(w, << [ type |-> "ActionObserved", agent_id |-> agent.id, action |-> "scan" ] >>, 0,
              [NoPending EXCEPT !.scan = Some([ agent_id |-> agent.id,
                                               position |-> agent.position, qi |-> agent.qi ])])

PairOf(a, b) == IF a < b THEN <<a, b>> ELSE <<b, a>>

\* "Child-{a}-{b}": the decimal texts of the two ids, joined by hyphens
\* a child named after the pair in id order
ChildNameSorted(a, b) == <<"Child", Min(a, b), Max(a, b)>>

ChildName(a, b) == <<"Child", a, b>>

\* partner checks made on the world as the earlier requests of the batch left it
ArmReproduceLive(w, id, action, mutual_pairs, snapshot) ==
    LET agent == w.agents[id]
        partner == action.partner
        agent_id == agent.id
        spent == SpendQi(agent, 1)
    IN  IF ~HasAgent(w, partner)
        THEN ArmErr(w, [ type |-> "PartnerNotFound", agent_id |-> agent_id, partner |-> partner ])
        ELSE IF ~w.agents[partner].alive
        THEN ArmErr(w, [ type |-> "PartnerNotFound", agent_id |-> agent_id, partner |-> partner ])
        ELSE IF ZoneOf(agent.position) # ZoneOf(w.agents[partner].position)
        THEN ArmErr(w, [ type |-> "PartnerOutOfZone", agent_id |-> agent_id, partner |-> partner ])
        ELSE IF PairOf(agent_id, partner) \notin mutual_pairs
        THEN ArmErr(w, [ type |-> "ReproductionDeclined", agent_id |-> agent_id, partner |-> partner ])
        ELSE IF ~spent.ok
        THEN ArmErr(w, spent.error)
        ELSE ArmOk([w EXCEPT !.agents[id] = spent.agent],
                   << QiSpentEvent(agent_id, 1, action) >>, 1,
                   [NoPending EXCEPT !.child = Some([ name |-> ChildName(agent_id, partner),
                                                    position |-> agent.position,
                                                    parent_a |-> agent_id, parent_b |-> partner ])])

ArmReproduce(w, id, action, mutual_pairs, snapshot) ==
    LET agent == w.agents[id]
        partner == action.partner
        agent_id == agent.id
        agent_zone == ZoneOf(agent.position)
        child_position == agent.position
        spent == SpendQi(agent, 1)
    IN  IF ~MapHas(snapshot, partner)
        THEN ArmErr(w, [ type |-> "PartnerNotFound", agent_id |-> agent_id, partner |-> partner ])
        ELSE IF ~snapshot[partner].alive
        THEN ArmErr(w, [ type |-> "PartnerNotFound", agent_id |-> agent_id, partner |-> partner ])
        ELSE IF agent_zone # ZoneOf(snapshot[partner].position)
        THEN ArmErr(w, [ type |-> "PartnerOutOfZone", agent_id |-> agent_id, partner |-> partner ])
        ELSE IF PairOf(agent_id, partner) \notin mutual_pairs
        THEN ArmErr(w, [ type |-> "ReproductionDeclined", agent_id |-> agent_id, partner |-> partner ])
        ELSE IF ~spent.ok
        THEN ArmErr(w, spent.error)
        ELSE ArmOk([w EXCEPT !.agents[id] = spent.agent],
                   << QiSpentEvent(agent_id, 1, action) >>, 1,
                   [NoPending EXCEPT !.child = Some([ name |-> ChildName(agent_id, partner),
                                                    position |-> child_position,
                                                    parent_a |-> agent_id, parent_b |-> partner ])])

\* a build arm that does not look at the cell
ArmBuildAnywhere(w, id, action) ==
    LET agent == w.agents[id]
        kind == action.skind
        ore_spent == IF kind = "Programmable" THEN SpendOre(agent, "Transistor", 1)
                     ELSE [ ok |-> TRUE, agent |-> agent ]
        cost == QiCost(action)
        qi_spent == IF cost > 0 THEN SpendQi(ore_spent.agent, cost)
                    ELSE [ ok |-> TRUE, agent |-> ore_spent.agent ]
        structure_id == w.next_structure_id
        structure == [ id |-> structure_id, kind |-> kind, position |-> agent.position,
                       zone |-> ZoneOf(agent.position), owner |-> agent.id ]
    IN  IF ~ore_spent.ok
        THEN ArmErr(w, ore_spent.error)
        ELSE IF ~qi_spent.ok
        THEN ArmErr([w EXCEPT !.agents[id] = ore_spent.agent], qi_spent.error)
        ELSE ArmOk([w EXCEPT !.agents[id] = qi_spent.agent,
                             !.next_structure_id = structure_id + 1,
                             !.structures = Append(@, structure)],
                   (IF cost > 0 THEN << QiSpentEvent(agent.id, cost, action) >> ELSE <<>>)
                     \o << [ type |-> "StructureBuilt", agent_id |-> agent.id, kind |-> kind,
                             position |-> agent.position, structure_id |-> structure_id ] >>,
                   (IF cost > 0 THEN cost ELSE 0), NoPending)

ArmBuild(w, id, action) ==
    LET agent == w.agents[id]
        kind == action.skind
        taken == \E i \in 1..Len(w.structures) : w.structures[i].position = agent.position
        ore_spent == IF kind = "Programmable" THEN SpendOre(agent, "Transistor", 1)
                     ELSE [ ok |-> TRUE, agent |-> agent ]
        cost == QiCost(action)
        qi_spent == IF cost > 0 THEN SpendQi(ore_spent.agent, cost)
                    ELSE [ ok |-> TRUE, agent |-> ore_spent.agent ]
        structure_id == w.next_structure_id
        structure == [ id |-> structure_id, kind |-> kind, position |-> agent.position,
                       zone |-> ZoneOf(agent.position), owner |-> agent.id ]
    IN  IF taken
        THEN ArmErr(w, [ type |-> "StructureSpaceOccupied", agent_id |-> agent.id,
                         position |-> agent.position ])
        ELSE IF ~ore_spent.ok
        THEN ArmErr(w, ore_spent.error)
        ELSE IF ~qi_spent.ok
        THEN ArmErr([w EXCEPT !.agents[id] = ore_spent.agent], qi_spent.error)
        ELSE ArmOk([w EXCEPT !.agents[id] = qi_spent.agent,
                             !.next_structure_id = structure_id + 1,
                             !.structures = Append(@, structure)],
                   (IF cost > 0 THEN << QiSpentEvent(agent.id, cost, action) >> ELSE <<>>)
                     \o << [ type |-> "StructureBuilt", agent_id |-> agent.id, kind |-> kind,
                             position |-> agent.position, structure_id |-> structure_id ] >>,
                   (IF cost > 0 THEN cost ELSE 0), NoPending)

\* the arithmetic of the HarvestOre arm overflows: in nearest_ore_source, or in
\* the within_range of the selected source
HarvestOverflows(w, position, action) ==
    IF action.source_id = 0
    THEN NearestOverflows(w.qi_sources, action.ore, position)
    ELSE /\ FindSource(w.qi_sources, action.source_id, action.ore) # 0
         /\ RangeOverflows(position,
                w.qi_sources[FindSource(w.qi_sources, action.source_id, action.ore)].position)

\* the HarvestOre arm with wrapping arithmetic
HarvestWrapping(w, id, action) ==
    LET agent == w.agents[id]
        ore == action.ore
        source_id == action.source_id
        found == FindSource(w.qi_sources, source_id, ore)
        selected == IF source_id = 0 THEN NearestOreSource(w.qi_sources, ore, agent.position)
                    ELSE IF found = 0 THEN NoneOpt ELSE Some(w.qi_sources[found])
        unavailable == [ type |-> "OreSourceUnavailable", agent_id |-> agent.id, ore |-> ore,
                         source_id |-> IF source_id # 0 THEN Some(source_id) ELSE NoneOpt ]
        spent == SpendQi(agent, 1)
    IN  IF ~selected.some
        THEN ArmErr(w, unavailable)
        ELSE IF ~WithinRange(agent.position, selected.v.position, HARVEST_RANGE)
        THEN ArmErr(w, unavailable)
        ELSE IF selected.v.current < HARVEST_PER_ACTION
        THEN ArmErr(w, [ type |-> "OreSourceDepleted", agent_id |-> agent.id, ore |-> ore,
                         source_id |-> selected.v.id, available |-> selected.v.current ])
        ELSE IF ~spent.ok
        THEN ArmErr(w, spent.error)
        ELSE ArmOk([w EXCEPT !.agents[id] = spent.agent],
                   << QiSpentEvent(agent.id, 1, action) >>, 1,
                   [NoPending EXCEPT !.harvest = Some([ agent_id |-> agent.id, ore |-> ore,
                                                      source_id |-> selected.v.id ])])

ArmHarvest(w, id, action) ==
    [HarvestWrapping(w, id, action) EXCEPT
        !.overflow = HarvestOverflows(w, w.agents[id].position, action)]

ArmIdle(w, id, action) == ArmOk(w, <<>>, 0, NoPending)

Arm(w, request, mutual_pairs, snapshot) ==
    LET id == request.agent_id
        action == request.action
    IN  CASE action.kind = "Move" -> ArmMove(w, id, action)
          [] action.kind = "Scan" -> ArmScan(w, id, action)
          [] action.kind = "Reproduce" -> ArmReproduce(w, id, action, mutual_pairs, snapshot)
          [] action.kind = "BuildStructure" -> ArmBuild(w, id, action)
          [] action.kind = "HarvestOre" -> ArmHarvest(w, id, action)
          [] action.kind = "Idle" -> ArmIdle(w, id, action)

\* the part of apply_action after the match: age, recycling, and the pending
\* scan report, child and harvest
ApplyScan(w, scan) ==
    << [ type |-> "ScanReport", agent_id |-> scan.agent_id, position |-> scan.position,
         qi |-> scan.qi,
         nearby_qi_sources |-> NearbyQiSources(w, scan.position, SCAN_RANGE),
         nearby_structures |-> NearbyStructures(w, scan.position, SCAN_RANGE) ] >>

ApplyChild(w, child) ==
    LET spawned == SpawnAgentDefault(w, child.name, 1, child.position)
    IN  [ world |-> spawned.world,
          events |-> << [ type |-> "AgentReproduced", parent_a |-> child.parent_a,
                          parent_b |-> child.parent_b, child_id |-> spawned.id ] >> ]

ApplyHarvest(w, harvest) ==
    LET i == FindSource(w.qi_sources, harvest.source_id, harvest.ore)
        src == w.qi_sources[i]
        amount == Min(src.current, HARVEST_PER_ACTION)
        remaining == SatSub(src.current, amount)
        w1 == [w EXCEPT !.qi_sources[i].current = remaining]
        w2 == IF HasAgent(w1, harvest.agent_id)
              THEN [w1 EXCEPT !.agents[harvest.agent_id] = GainOre(@, harvest.ore, amount)]
              ELSE w1
    IN  IF i = 0 THEN [ world |-> w, events |-> <<>> ]
        ELSE [ world |-> w2,
               events |->
                 << [ type |-> "OreGained", agent_id |-> harvest.agent_id, ore |-> harvest.ore,
                      amount |-> amount, source |-> "ore_node" ],
                    [ type |-> "OreNodeHarvested", agent_id |-> harvest.agent_id,
                      ore |-> harvest.ore, source_id |-> harvest.source_id,
                      amount |-> amount, remaining |-> remaining ] >>
                 \o (IF remaining = 0
                     THEN << [ type |-> "OreNodeDrained", ore |-> harvest.ore,
                               source_id |-> harvest.source_id, position |-> src.position ] >>
                     ELSE <<>>) ]

\* a within_range of the scan report overflows
ScanOverflows(w, position) ==
    \/ \E i \in DOMAIN w.qi_sources : RangeOverflows(w.qi_sources[i].position, position)
    \/ \E i \in DOMAIN w.structures : RangeOverflows(w.structures[i].position, position)

\* the pending scan report, child or harvest of a request that passed its arm
Pending(arm, w) ==
    IF arm.pending.scan.some
    THEN [ world |-> w, events |-> arm.events \o ApplyScan(w, arm.pending.scan.v) ]
    ELSE IF arm.pending.child.some
    THEN [ world |-> ApplyChild(w, arm.pending.child.v).world,
           events |-> arm.events \o ApplyChild(w, arm.pending.child.v).events ]
    ELSE IF arm.pending.harvest.some
    THEN [ world |-> ApplyHarvest(w, arm.pending.harvest.v).world,
           events |-> arm.events \o ApplyHarvest(w, arm.pending.harvest.v).events ]
    ELSE [ world |-> w, events |-> arm.events ]

\* agent.age += 1 at the end of the match, then recycle_qi(reclaimed_qi)
\* an end of the match that forgets to age the agent
RecycledOnly(arm, id) ==
    IF arm.reclaimed_qi > 0 THEN RecycleQi(arm.world, arm.reclaimed_qi) ELSE arm.world

\* an end of the match that ages the agent only when the action cost Qi
AgedOnlyWhenPaid(arm, id) ==
    IF arm.reclaimed_qi > 0
    THEN RecycleQi([arm.world EXCEPT !.agents[id].age = @ + 1], arm.reclaimed_qi)
    ELSE arm.world

AgedAndRecycled(arm, id) ==
    IF arm.reclaimed_qi > 0
    THEN RecycleQi([arm.world EXCEPT !.agents[id].age = @ + 1], arm.reclaimed_qi)
    ELSE [arm.world EXCEPT !.agents[id].age = @ + 1]

AfterMatch(arm, id) ==
    IF ~arm.ok
    THEN [ ok |-> FALSE, world |-> arm.world, events |-> <<>>, error |-> arm.error,
           overflow |-> arm.overflow ]
    ELSE [ ok |-> TRUE, error |-> NoneOpt,
           overflow |-> \/ arm.overflow
                        \/ /\ arm.pending.scan.some
                           /\ ScanOverflows(arm.world, arm.pending.scan.v.position) ]
           @@ Pending(arm, AgedAndRecycled(arm, id))

\* a lookup that lets the dead act
ApplyActionOfTheDead(w, request, mutual_pairs, snapshot) ==
    IF ~HasAgent(w, request.agent_id)
    THEN [ ok |-> FALSE, world |-> w, events |-> <<>>, overflow |-> FALSE,
           error |-> [ type |-> "AgentNotFound", agent_id |-> request.agent_id ] ]
    ELSE AfterMatch(Arm(w, request, mutual_pairs, snapshot), request.agent_id)

ApplyAction(w, request, mutual_pairs, snapshot) ==
    IF ~HasAgent(w, request.agent_id)
    THEN [ ok |-> FALSE, world |-> w, events |-> <<>>, overflow |-> FALSE,
           error |-> [ type |-> "AgentNotFound", agent_id |-> request.agent_id ] ]
    ELSE IF ~w.agents[request.agent_id].alive
    THEN [ ok |-> FALSE, world |-> w, events |-> <<>>, overflow |-> FALSE,
           error |-> [ type |-> "AgentDead", agent_id |-> request.agent_id ] ]
    ELSE AfterMatch(Arm(w, request, mutual_pairs, snapshot), request.agent_id)

\* ------------------------------------------------------- age enforcement
MarkAgentDead(w, agent_id, reason) ==
    IF ~HasAgent(w, agent_id) \/ ~w.agents[agent_id].alive
    THEN [ world |-> w, event |-> NoneOpt ]
    ELSE [ world |-> [w EXCEPT !.agents[agent_id].alive = FALSE,
                               !.occupied = MapRemove(@, w.agents[agent_id].position)],
           event |-> Some([ type |-> "AgentDied", agent_id |-> agent_id, reason |-> reason ]) ]

\* a cull that spares the agents exactly at their max_age
DoomedLate(w) == {i \in 1..Len(w.agents) : w.agents[i].alive /\ w.agents[i].age > w.agents[i].max_age}

\* a cull that takes only the agents whose age is exactly their limit
DoomedExactly(w) == {i \in 1..Len(w.agents) : w.agents[i].alive /\ w.agents[i].age = w.agents[i].max_age}

\* a cull that also takes the agents without Qi
DoomedOrBroke(w) ==
    {i \in 1..Len(w.agents) :
        w.agents[i].alive /\ (w.agents[i].age >= w.agents[i].max_age \/ w.agents[i].qi = 0)}

\* the agents enforce_age_limits collects; it walks a HashMap, whose order of
\* iteration is not fixed: every order of them is possible

Doomed(w) == {i \in 1..Len(w.agents) : w.agents[i].alive /\ w.agents[i].age >= w.agents[i].max_age}

RECURSIVE EnforceAgeLimits(_, _)
EnforceAgeLimits(w, doomed) ==
    IF doomed = <<>> THEN [ world |-> w, events |-> <<>> ]
    ELSE LET m == MarkAgentDead(w, Head(doomed), "Age")
             rest == EnforceAgeLimits(m.world, Tail(doomed))
         IN  [ world |-> rest.world,
               events |-> (IF m.event.some THEN <<m.event.v>> ELSE <<>>) \o rest.events ]

\* ------------------------------------------------------------------ step
\* intents: the HashMap agent -> declared partner; a later Reproduce request of
\* the same agent overwrites an earlier one
RECURSIVE Intents(_)
Intents(actions) ==
    IF actions = <<>> THEN EmptyMap
    ELSE LET n == Len(actions)
             req == actions[n]
             before == Intents(SubSeq(actions, 1, n - 1))
         IN  IF req.action.kind = "Reproduce"
             THEN MapInsert(before, req.agent_id, req.action.partner)
             ELSE before

\* consent taken from one declaration alone
MutualPairsOneSided(intents) ==
    { PairOf(a, intents[a]) : a \in DOMAIN intents }

MutualPairs(intents) ==
    { PairOf(a, intents[a]) :
        a \in {x \in DOMAIN intents : MapHas(intents, intents[x]) /\ intents[intents[x]] = x} }

Snapshot(w) ==
    [id \in 1..Len(w.agents) |->
        [ position |-> w.agents[id].position, alive |-> w.agents[id].alive ]]

\* the loop over the requests: the world, the events, the rejections, and per
\* request the world before and after it
Resolved(w, request, r, rest) ==
    [ world |-> rest.world,
      events |-> (IF r.ok THEN r.events ELSE <<>>) \o rest.events,
      rejections |-> (IF r.ok THEN <<>> ELSE << [ request |-> request, error |-> r.error ] >>)
                     \o rest.rejections,
      trace |-> << [ request |-> request, ok |-> r.ok, error |-> r.error,
                     events |-> r.events, pre |-> w, post |-> r.world,
                     overflow |-> r.overflow ] >>
                \o rest.trace ]

RECURSIVE RunRequests(_, _, _, _)
\* a loop that gives up at the first rejection
RunRestStopping(w, actions, r, mutual_pairs, snapshot) ==
    IF r.ok
    THEN Resolved(w, Head(actions), r, RunRequests(r.world, Tail(actions), mutual_pairs, snapshot))
    ELSE Resolved(w, Head(actions), r,
                  [ world |-> r.world, events |-> <<>>, rejections |-> <<>>, trace |-> <<>> ])

\* a loop that resolves every request against the world the step began with
RunRestStale(w, actions, r, mutual_pairs, snapshot) ==
    Resolved(w, Head(actions), r, RunRequests(w, Tail(actions), mutual_pairs, snapshot))

RunRest(w, actions, r, mutual_pairs, snapshot) ==
    Resolved(w, Head(actions), r, RunRequests(r.world, Tail(actions), mutual_pairs, snapshot))

RunRequests(w, actions, mutual_pairs, snapshot) ==
    IF actions = <<>>
    THEN [ world |-> w, events |-> <<>>, rejections |-> <<>>, trace |-> <<>> ]
    ELSE RunRest(w, actions, ApplyAction(w, Head(actions), mutual_pairs, snapshot),
                 mutual_pairs, snapshot)

\* a step that recharges the sources after the requests
StepRequestsRechargeLast(w, actions) ==
    [RunRequests(w, actions, MutualPairs(Intents(actions)), Snapshot(w))
        EXCEPT !.world = RechargeQiSources(@)]

\* step up to the age enforcement: recharge, consents, snapshot, requests
StepRequests(w, actions) ==
    RunRequests(RechargeQiSources(w), actions, MutualPairs(Intents(actions)),
                Snapshot(RechargeQiSources(w)))

\* the rest of step, given the order in which the doomed agents were collected
TickEvents(tick, run, culled) ==
    << [ type |-> "TickStarted", tick |-> tick ] >> \o run.events \o culled.events
      \o << [ type |-> "TickCompleted", tick |-> tick ] >>

\* a step that keeps only its own events in the log
FinishedLogReset(tick, tick_events, run, culled) ==
    [ world |-> [culled.world EXCEPT !.tick = tick, !.events = tick_events],
      result |-> [ op |-> "step", tick |-> tick, events |-> tick_events,
                   rejections |-> run.rejections ],
      trace |-> run.trace ]

Finished(tick, tick_events, run, culled) ==
    [ world |-> [culled.world EXCEPT !.tick = tick, !.events = @ \o tick_events],
      result |-> [ op |-> "step", tick |-> tick, events |-> tick_events,
                   rejections |-> run.rejections ],
      trace |-> run.trace ]

Culled(tick, run, culled) == Finished(tick, TickEvents(tick, run, culled), run, culled)

StepFinish(w, run, doomed) == Culled(w.tick + 1, run, EnforceAgeLimits(run.world, doomed))

\* the arithmetic of some request of the run overflowed
Overflowed(run) == \E k \in DOMAIN run.trace : run.trace[k].overflow

FirstOverflow(run) ==
    CHOOSE k \in DOMAIN run.trace :
        run.trace[k].overflow /\ \A j \in 1..(k - 1) : ~run.trace[j].overflow

\* step in a build with overflow checks: it panics in the first request whose
\* arithmetic overflows, before that request has written anything, and never returns
Aborted(w, run) ==
    [ world |-> run.trace[FirstOverflow(run)].pre,
      result |-> [ op |-> "panic", request |-> run.trace[FirstOverflow(run)].request ],
      trace |-> SubSeq(run.trace, 1, FirstOverflow(run) - 1) ]

\* what step can do with the resolved requests: return, under every order of the
\* age enforcement and with wrapped arithmetic where it overflowed, or panic there
StepOutcomes(w, run) ==
    { StepFinish(w, run, doomed) : doomed \in Orders(Doomed(run.world)) }
      \cup (IF Overflowed(run) THEN {Aborted(w, run)} ELSE {})

\* ------------------------------------------------------------- the inputs
\* spawn_agent_with_age: (qi, max_age); the driver spawns every agent at one position
SpawnInputs == { [ qi |-> 1, max_age |-> 2 ], [ qi |-> 0, max_age |-> 1 ] }

\* seed_ore_source: the persisted ore nodes, seeded in this order
SeedInputs ==
    << [ ore |-> "Qi", position |-> Pos(1, 0, 0), capacity |-> 4, recharge_per_tick |-> 1 ],
       [ ore |-> "Transistor", position |-> Origin, capacity |-> 3, recharge_per_tick |-> 0 ] >>

MaxSupplyValues == {2, 6}

Request(id, action) == [ agent_id |-> id, action |-> action ]

Move(dx, dy, dz) == [ kind |-> "Move", dx |-> dx, dy |-> dy, dz |-> dz ]

Reproduce(partner) == [ kind |-> "Reproduce", partner |-> partner ]

BuildStructure(kind) == [ kind |-> "BuildStructure", skind |-> kind ]

HarvestOre(ore, source_id) == [ kind |-> "HarvestOre", ore |-> ore, source_id |-> source_id ]

Idle == [ kind |-> "Idle" ]

Scan == [ kind |-> "Scan" ]

Known(w) == 1..Len(w.agents)

\* an id that was never spawned
Unknown(w) == Len(w.agents) + 1

\* the requests of a driver that moves and breeds its agents
LifeRequests(w) ==
    { Request(id, a) : id \in Known(w),
                       a \in {Idle, Move(-1, 0, 0), Move(0, 0, 0), Move(1, 0, 0), Move(4, 0, 0)}
                             \cup {Reproduce(p) : p \in Known(w) \cup {Unknown(w)}} }
      \cup { Request(Unknown(w), Idle) }

\* the requests of a driver that harvests and builds
OreActions(w, id) ==
    {Scan, BuildStructure("Basic"), BuildStructure("Programmable"),
     HarvestOre("Qi", 0), HarvestOre("Transistor", 0), HarvestOre("Qi", 1)}
      \cup {Reproduce(p) : p \in Known(w) \ {id}}

OreRequests(w) == UNION {{Request(id, a) : a \in OreActions(w, id)} : id \in Known(w)}

\* ---------------------------------------------------------------- actions
Init ==
    /\ world = NewWorld
    /\ result = [ op |-> "new" ]
    /\ batch = <<>>
    /\ trace = <<>>
    /\ calls = 0
    /\ menu \in {"life", "ore"}

\* the process has not panicked
Running == result.op # "panic"

SpawnAgent ==
    /\ Running
    /\ calls < MaxCalls
    /\ world.next_agent_id <= MaxSpawn
    /\ \E in \in SpawnInputs :
         LET spawned == SpawnAgentWithAge(world, <<"Agent", world.next_agent_id>>,
                                          in.qi, Origin, in.max_age)
         IN  /\ world' = spawned.world
             /\ result' = [ op |-> "spawn_agent", id |-> spawned.id ]
    /\ calls' = calls + 1
    /\ UNCHANGED <<batch, trace, menu>>

\* kill_agent
\* a kill that logs the death of an agent already dead
KillAgentAgain(w, agent_id, reason) ==
    IF ~HasAgent(w, agent_id)
    THEN [ world |-> w, ok |-> FALSE,
           error |-> [ type |-> "AgentNotFound", agent_id |-> agent_id ] ]
    ELSE [ world |-> [w EXCEPT
                        !.agents[agent_id].alive = FALSE,
                        !.occupied = MapRemove(@, w.agents[agent_id].position),
                        !.events = Append(@, [ type |-> "AgentDied", agent_id |-> agent_id,
                                               reason |-> reason ])],
           ok |-> TRUE ]

KillAgentOf(w, agent_id, reason) ==
    IF ~HasAgent(w, agent_id)
    THEN [ world |-> w, ok |-> FALSE,
           error |-> [ type |-> "AgentNotFound", agent_id |-> agent_id ] ]
    ELSE IF ~w.agents[agent_id].alive
    THEN [ world |-> w, ok |-> TRUE ]
    ELSE [ world |-> [w EXCEPT
                        !.agents[agent_id].alive = FALSE,
                        !.occupied = MapRemove(@, w.agents[agent_id].position),
                        !.events = Append(@, [ type |-> "AgentDied", agent_id |-> agent_id,
                                               reason |-> reason ])],
           ok |-> TRUE ]

KillAgent ==
    /\ Running
    /\ calls < MaxCalls
    /\ \E agent_id \in Known(world) \cup {Unknown(world)} :
         LET killed == KillAgentOf(world, agent_id, "Hazard")
         IN  /\ world' = killed.world
             /\ result' = [ op |-> "kill_agent", agent_id |-> agent_id, ok |-> killed.ok,
                             error |-> IF killed.ok THEN NoneOpt ELSE Some(killed.error) ]
    /\ calls' = calls + 1
    /\ UNCHANGED <<batch, trace, menu>>

\* the driver sets the cap and seeds its ore nodes, in their order, before it
\* loads its agents (commands/mod.rs)
AtStartup == world.tick = 0 /\ world.agents = <<>>

SetMaxQiSupply ==
    /\ AtStartup
    /\ ~world.max_qi_supply.some
    /\ world.qi_sources = <<>>
    /\ \E max \in MaxSupplyValues :
         /\ world' = SetMaxQiSupplyOf(world, max)
         /\ result' = [ op |-> "set_max_qi_supply" ]
    /\ UNCHANGED <<batch, trace, calls, menu>>

SeedOreSource ==
    /\ AtStartup
    /\ Len(world.qi_sources) < Len(SeedInputs)
    /\ LET s == SeedInputs[Len(world.qi_sources) + 1]
       IN  /\ world' = AddQiSource(world, s.ore, s.position, s.capacity, s.recharge_per_tick)
           /\ result' = [ op |-> "seed_ore_source", id |-> world.next_qi_source_id ]
    /\ UNCHANGED <<batch, trace, calls, menu>>

\* step(actions), for a batch drawn from the requests
StepDone(done) ==
    /\ world' = done.world
    /\ result' = done.result
    /\ trace' = done.trace

StepRun(run) == \E done \in StepOutcomes(world, run) : StepDone(done)

Step(requests) ==
    /\ Running
    /\ calls < MaxCalls
    /\ \E actions \in SeqsUpTo(requests, MaxCalls - calls) :
         /\ StepRun(StepRequests(world, actions))
         /\ batch' = actions
         /\ calls' = calls + Max(1, Len(actions))
    /\ UNCHANGED menu

StepLife == Step(LifeRequests(world))

StepOre == Step(OreRequests(world))

NextLife == SpawnAgent \/ KillAgent \/ StepLife

NextOre == SpawnAgent \/ SeedOreSource \/ SetMaxQiSupply \/ StepOre

Next ==
    \/ menu = "life" /\ NextLife
    \/ menu = "ore" /\ NextOre

\* every behaviour of the model
Spec == Init /\ [][Next]_vars

InitLife == Init /\ menu = "life"

InitOre == Init /\ menu = "ore"

\* the behaviours of the driver that moves and breeds
SpecLife == InitLife /\ [][NextLife]_vars

\* the behaviours of the driver that harvests and builds
SpecOre == InitOre /\ [][NextOre]_vars

\* ------------------------------------------------- recharge on its own
\* Worlds for recharge_qi_sources alone: one or two sources at any level up to
\* their capacity (tests::qi_recharge_respects_global_cap sets the level of a
\* seeded source by hand), with or without a cap, a recycled pool and an agent
\* holding Qi; step with no request then runs the recharge.
RechargeSources ==
    { [ ore |-> "Qi", capacity |-> 10, current |-> c, recharge_per_tick |-> 3 ] : c \in {0, 8} }
      \cup { [ ore |-> "Qi", capacity |-> 2, current |-> c, recharge_per_tick |-> 1 ] : c \in 0..2 }
      \cup { [ ore |-> "Transistor", capacity |-> 2, current |-> 0, recharge_per_tick |-> 1 ] }

\* the sources as add_qi_source lists them: ids 1, 2, ... in order
Seeded(shapes) ==
    [i \in 1..Len(shapes) |-> [ id |-> i, position |-> Origin ] @@ shapes[i]]

RechargeBases == {NewWorld, SpawnAgentWithAge(NewWorld, <<"Agent", 1>>, 2, Origin, 2).world}

RechargeWorlds ==
    { [base EXCEPT !.qi_sources = Seeded(shapes),
                   !.next_qi_source_id = Len(shapes) + 1,
                   !.max_qi_supply = cap,
                   !.recycled_qi = pool] :
        base \in RechargeBases,
        shapes \in SeqsUpTo(RechargeSources, MaxSources) \ {<<>>},
        cap \in {NoneOpt, Some(1), Some(5)},
        pool \in {0, 1, 4} }

InitRecharge ==
    /\ world \in RechargeWorlds
    /\ result = [ op |-> "new" ]
    /\ batch = <<>>
    /\ trace = <<>>
    /\ calls = 0
    /\ menu = "ore"

\* step(&[])
StepEmpty == Step({})

\* the behaviours of a driver that only lets the ticks pass
SpecRecharge == InitRecharge /\ [][StepEmpty]_vars

\* ------------------------------------------------------ moves on their own
\* Worlds for the Move arm alone: the mover at the origin or beside it, with or
\* without Qi, and nobody, an alive agent or a dead one on a cell near the rim of
\* its reach.
MoverInputs == { [ qi |-> q, position |-> p ] : q \in {0, 1, 2}, p \in {Origin, Pos(-1, 0, 0)} }

MoveBases ==
    { SpawnAgentWithAge(NewWorld, <<"Agent", 1>>, in.qi, in.position, 3).world :
        in \in MoverInputs }

Neighboured(w, position) == SpawnAgentWithAge(w, <<"Agent", 2>>, 1, position, 3).world

MoveWorlds ==
    MoveBases
      \cup { Neighboured(w, p) : w \in MoveBases, p \in {Pos(3, 0, 0), Pos(4, 0, 0)} }
      \cup { KillAgentOf(Neighboured(w, Pos(3, 0, 0)), 2, "Hazard").world : w \in MoveBases }

InitMove ==
    /\ world \in MoveWorlds
    /\ result = [ op |-> "new" ]
    /\ batch = <<>>
    /\ trace = <<>>
    /\ calls = 0
    /\ menu = "life"

\* the deltas: any i32 is a dx, dy or dz of Action::Move
MoveDeltas ==
    { <<I32_MIN, 0, 0>>, <<I32_MIN, 4, 0>>, <<4, 0, 0>>, <<0, -4, 0>>, <<3, 0, 0>>,
      <<-3, 3, -3>> }

MoveRequests(w) == { Request(1, Move(d[1], d[2], d[3])) : d \in MoveDeltas }

\* step(&[request])
StepOne(requests) ==
    /\ Running
    /\ calls < MaxCalls
    /\ \E request \in requests :
         /\ StepRun(StepRequests(world, <<request>>))
         /\ batch' = <<request>>
    /\ calls' = calls + 1
    /\ UNCHANGED menu

StepMove == StepOne(MoveRequests(world))

\* the behaviours of a driver that moves one agent, one request per tick
SpecMove == InitMove /\ [][StepMove]_vars

\* --------------------------------------------------- harvests on their own
\* Worlds for the HarvestOre arm alone: an agent at the origin, with or without
\* Qi, and one or more ore sources around it: full, low, empty, beside the agent,
\* within SCAN_RANGE only, or beyond it.  A source below its capacity holds what
\* earlier harvests of 3 have left of it.
OreNode(ore, position, capacity, current, recharge_per_tick) ==
    [ ore |-> ore, position |-> position, capacity |-> capacity, current |-> current,
      recharge_per_tick |-> recharge_per_tick ]

HarvestSources ==
    { OreNode("Qi", Pos(1, 0, 0), 7, 7, 0),
      OreNode("Qi", Pos(1, 1, 1), 6, 3, 0),
      OreNode("Qi", Pos(2, 0, 0), 6, 3, 0),
      OreNode("Qi", Pos(0, 1, 0), 6, 0, 0),
      OreNode("Qi", Pos(0, 0, 1), 8, 2, 0),
      OreNode("Qi", Pos(8, 8, 0), 6, 3, 0),
      OreNode("Qi", Pos(9, 0, 0), 6, 3, 0),
      OreNode("Qi", Pos(I32_MIN, 0, 0), 7, 7, 0),
      OreNode("Transistor", Pos(1, 0, 0), 3, 3, 1),
      OreNode("Transistor", Pos(2, 0, 0), 3, 3, 0),
      OreNode("Transistor", Origin, 3, 0, 1) }

\* the sources as add_qi_source lists them: ids 1, 2, ... in seeding order
Placed(shapes) == [i \in 1..Len(shapes) |-> [ id |-> i ] @@ shapes[i]]

HarvestWorlds ==
    { [SpawnAgentWithAge(NewWorld, <<"Agent", 1>>, qi, Origin, 3).world EXCEPT
          !.qi_sources = Placed(shapes),
          !.next_qi_source_id = Len(shapes) + 1] :
        qi \in {0, 1},
        shapes \in SeqsUpTo(HarvestSources, MaxSources) \ {<<>>} }

InitHarvest ==
    /\ world \in HarvestWorlds
    /\ result = [ op |-> "new" ]
    /\ batch = <<>>
    /\ trace = <<>>
    /\ calls = 0
    /\ menu = "ore"

\* nearest (source_id 0), each listed source by its id, and an id no source has
HarvestRequests(w) ==
    { Request(1, HarvestOre(ore, source_id)) :
        ore \in {"Qi", "Transistor"}, source_id \in 0..(Len(w.qi_sources) + 1) }

\* the first step: one request, alone or twice in the batch
StepFirst(requests) ==
    /\ Running
    /\ world.tick = 0
    /\ \E request \in requests, n \in {1, 2} :
         /\ StepRun(StepRequests(world, [i \in 1..n |-> request]))
         /\ batch' = [i \in 1..n |-> request]
         /\ calls' = calls + n
    /\ UNCHANGED menu

StepHarvest == StepFirst(HarvestRequests(world))

\* the behaviours of a driver whose agent harvests in the first tick
SpecHarvest == InitHarvest /\ [][StepHarvest]_vars

\* ----------------------------------------------------- builds on their own
\* Worlds for the BuildStructure arm: a builder at the origin with 0 to 4 Qi and
\* a Transistor node under it, as in tests::harvest_transistor_and_build_programmable.
\* The builder harvests transistors, builds each kind of structure and steps
\* aside, one request per tick.
BuilderQi == {0, 1, 2, 4}

BuildWorlds ==
    { AddQiSource(SpawnAgentWithAge(NewWorld, <<"Agent", 1>>, qi, Origin,
                                    DEFAULT_MAX_AGENT_AGE).world,
                  "Transistor", Origin, 3, 0) : qi \in BuilderQi }

InitBuild ==
    /\ world \in BuildWorlds
    /\ result = [ op |-> "new" ]
    /\ batch = <<>>
    /\ trace = <<>>
    /\ calls = 0
    /\ menu = "ore"

BuildRequests(w) ==
    { Request(1, action) :
        action \in { BuildStructure("Basic"), BuildStructure("Programmable"),
                     BuildStructure("Qi"), HarvestOre("Transistor", 0), Move(1, 0, 0) } }

StepBuild == StepOne(BuildRequests(world))

\* the behaviours of a driver whose agent builds, one request per tick
SpecBuild == InitBuild /\ [][StepBuild]_vars

\* ------------------------------------------------ every kind of request
\* Worlds for the agent lookup: two agents side by side that live two ticks, the
\* second alive or killed (tests::dead_agents_cannot_act), and an ore node beside
\* them.  Each tick one request of any kind comes in, for the first agent, for
\* the second, or for an id that was never spawned.
ActWorlds ==
    { AddQiSource(w, "Qi", Pos(0, 1, 0), 3, 0) :
        w \in { SpawnAgentWithAge(SpawnAgentWithAge(NewWorld, <<"Agent", 1>>, 1, Origin, 2).world,
                                  <<"Agent", 2>>, 1, Origin, 2).world,
                KillAgentOf(SpawnAgentWithAge(
                              SpawnAgentWithAge(NewWorld, <<"Agent", 1>>, 1, Origin, 2).world,
                              <<"Agent", 2>>, 1, Origin, 2).world, 2, "Hazard").world } }

InitActs ==
    /\ world \in ActWorlds
    /\ result = [ op |-> "new" ]
    /\ batch = <<>>
    /\ trace = <<>>
    /\ calls = 0
    /\ menu = "life"

\* one action of each kind
ActKinds(w) ==
    { Idle, Scan, Move(0, 1, 0), BuildStructure("Basic"), HarvestOre("Qi", 0) }
      \cup { Reproduce(p) : p \in Known(w) }

ActRequests(w) ==
    { Request(id, action) : id \in Known(w) \cup {Unknown(w)}, action \in ActKinds(w) }

\* the driver stops after MaxTicks ticks
StepActs == world.tick < MaxTicks /\ StepOne(ActRequests(world))

\* the behaviours of a driver that sends one request of any kind per tick
SpecActs == InitActs /\ [][StepActs]_vars

\* ------------------------------------------------------ scans on their own
\* Worlds for the scan report, after tests::scan_reports_local_state: a scout at
\* the origin, ore nodes around it (full, tapped or empty; beside it, on the rim
\* of SCAN_RANGE, beyond it, at the far end of the x axis) and, in some, a
\* structure that an earlier agent built on the rim or beyond it before it was
\* killed.
ScanSources ==
    { OreNode("Qi", Pos(1, 0, 0), 6, 6, 0),
      OreNode("Qi", Pos(0, -1, 0), 6, 0, 0),
      OreNode("Transistor", Pos(-8, 8, -8), 3, 3, 0),
      OreNode("Transistor", Pos(0, 0, 9), 3, 3, 0),
      OreNode("Qi", Pos(-9, 0, 0), 6, 3, 0),
      OreNode("Qi", Pos(I32_MIN, 0, 0), 6, 6, 0) }

\* spawn a builder at the position, let it build there in a tick of its own,
\* and kill it
BuiltAt(w, position) ==
    KillAgentOf(
        StepFinish(SpawnAgentDefault(w, <<"Agent", w.next_agent_id>>, 1, position).world,
                   StepRequests(SpawnAgentDefault(w, <<"Agent", w.next_agent_id>>, 1, position).world,
                                << Request(w.next_agent_id, BuildStructure("Basic")) >>),
                   <<>>).world,
        w.next_agent_id, "Hazard").world

ScanBases == { NewWorld, BuiltAt(NewWorld, Pos(8, -8, 0)), BuiltAt(NewWorld, Pos(0, 9, 0)) }

ScanWorlds ==
    { [SpawnAgentDefault(base, <<"Agent", base.next_agent_id>>, qi, Origin).world EXCEPT
          !.qi_sources = Placed(shapes),
          !.next_qi_source_id = Len(shapes) + 1] :
        base \in ScanBases, qi \in {0, 3}, shapes \in SeqsUpTo(ScanSources, MaxSources) }

InitScan ==
    /\ world \in ScanWorlds
    /\ result = [ op |-> "new" ]
    /\ batch = <<>>
    /\ trace = <<>>
    /\ calls = 0
    /\ menu = "ore"

\* the scout, the agent spawned last
Scout(w) == Len(w.agents)

\* a scan alone, after a harvest, after a build
ScanBatches(w) ==
    { << Request(Scout(w), Scan) >>,
      << Request(Scout(w), HarvestOre("Qi", 0)), Request(Scout(w), Scan) >>,
      << Request(Scout(w), BuildStructure("Basic")), Request(Scout(w), Scan) >> }

\* the first step of the driver, one of its batches
StepScan ==
    /\ Running
    /\ calls = 0
    /\ \E actions \in ScanBatches(world) :
         /\ StepRun(StepRequests(world, actions))
         /\ batch' = actions
         /\ calls' = Len(actions)
    /\ UNCHANGED menu

\* the behaviours of a driver whose scout scans in its first tick
SpecScan == InitScan /\ [][StepScan]_vars

\* ----------------------------------------------------- spawns on their own
\* the positions a caller asks for: the origin, a cell two further, the last cell
\* of the first zone, and the last cell of the x axis
SpawnPositions == { Origin, Pos(2, 0, 0), Pos(ZONE_SIZE - 1, 0, 0), Pos(I32_MAX, 0, 0) }

InitSpawn ==
    /\ world = NewWorld
    /\ result = [ op |-> "new" ]
    /\ batch = <<>>
    /\ trace = <<>>
    /\ calls = 0
    /\ menu = "spawn"

\* spawn_agent: it returns the id, with the wrapped position where the search
\* overflowed, or panics in the search in a build with overflow checks
SpawnOutcomes(w, name, qi, position) ==
    { [ world |-> SpawnAgentDefault(w, name, qi, position).world,
        result |-> [ op |-> "spawn_agent", id |-> SpawnAgentDefault(w, name, qi, position).id,
                     position |-> position ] ] }
      \cup (IF FreeCellOverflows(w.occupied, position)
            THEN { [ world |-> w, result |-> [ op |-> "panic", position |-> position ] ] }
            ELSE {})

SpawnAt ==
    /\ Running
    /\ calls < MaxCalls
    /\ \E position \in SpawnPositions :
         \E out \in SpawnOutcomes(world, <<"Agent", world.next_agent_id>>, 1, position) :
             /\ world' = out.world
             /\ result' = out.result
    /\ calls' = calls + 1
    /\ UNCHANGED <<batch, trace, menu>>

NextSpawn == SpawnAt \/ KillAgent

SpecSpawn == InitSpawn /\ [][NextSpawn]_vars

\* ------------------------------------------- harvests over several ticks
\* Worlds for the recharge between harvests: one agent at the origin beside a Qi
\* source that recharges 1 per tick, with or without a cap on the supply
PoolWorlds ==
    { [AddQiSource(SpawnAgentDefault(NewWorld, <<"Agent", 1>>, qi, Origin).world,
                   "Qi", Pos(1, 0, 0), capacity, 1)
          EXCEPT !.max_qi_supply = cap] :
        qi \in {1, 4}, capacity \in {4, 6}, cap \in {NoneOpt, Some(6)} }

InitPool ==
    /\ world \in PoolWorlds
    /\ result = [ op |-> "new" ]
    /\ batch = <<>>
    /\ trace = <<>>
    /\ calls = 0
    /\ menu = "ore"

PoolRequests(w) == { Request(1, HarvestOre("Qi", 0)), Request(1, Idle) }

\* step with no request, one or two, tick after tick
StepPool ==
    /\ Running
    /\ world.tick < MaxTicks
    /\ \E actions \in SeqsUpTo(PoolRequests(world), 2) :
         /\ StepRun(StepRequests(world, actions))
         /\ batch' = actions
         /\ calls' = calls + Max(1, Len(actions))
    /\ UNCHANGED menu

SpecPool == InitPool /\ [][StepPool]_vars

\* ------------------------------------------------- every way to spend Qi
\* Worlds for the Qi that requests spend: a spender with 4 Qi at the origin, a
\* mate with 1 Qi beside it, a Qi source in reach that recharges 2 per tick
SpendWorlds ==
    { AddQiSource(SpawnAgentDefault(SpawnAgentDefault(NewWorld, <<"Agent", 1>>, 4, Origin).world,
                                    <<"Agent", 2>>, 1, Origin).world,
                  "Qi", Pos(0, 1, 0), 6, rate) : rate \in {2} }

InitSpend ==
    /\ world \in SpendWorlds
    /\ result = [ op |-> "new" ]
    /\ batch = <<>>
    /\ trace = <<>>
    /\ calls = 0
    /\ menu = "ore"

\* one request of every kind that costs Qi for the spender, one that costs
\* nothing, and the mate's consent
SpendRequests(w) ==
    { Request(1, a) : a \in {Move(0, 0, 1), BuildStructure("Basic"), HarvestOre("Qi", 0),
                             Reproduce(2), Idle} }
      \cup { Request(2, Reproduce(1)) }

StepSpend == Step(SpendRequests(world))

SpecSpend == InitSpend /\ [][StepSpend]_vars

\* ------------------------------------------------- agents that never rest
\* Worlds for the lifespan: one agent or two, spawned before the first tick with
\* a requested max_age from 0 on
AgingWorlds ==
    { SpawnAgentWithAge(NewWorld, <<"Agent", 1>>, 1, Origin, a).world : a \in 0..MaxTicks }
      \cup { SpawnAgentWithAge(SpawnAgentWithAge(NewWorld, <<"Agent", 1>>, 1, Origin, a).world,
                               <<"Agent", 2>>, 0, Origin, b).world :
               a \in 0..MaxTicks, b \in 0..MaxTicks }

InitAging ==
    /\ world \in AgingWorlds
    /\ result = [ op |-> "new" ]
    /\ batch = <<>>
    /\ trace = <<>>
    /\ calls = 0
    /\ menu = "life"

\* the requests of a tick in which every agent idles once, in id order
Idles(w) == [i \in 1..Len(w.agents) |-> Request(i, Idle)]

\* what the driver may add to them: nothing, a move in reach or one out of reach
Extras(w) ==
    {<<>>} \cup { <<Request(i, a)>> : i \in Known(w), a \in {Move(0, 1, 0), Move(4, 0, 0), Idle} }

\* step with an Idle for every agent and at most one request more
StepAging ==
    /\ Running
    /\ world.tick <= MaxTicks
    /\ \E before \in Extras(world), after \in Extras(world) :
         /\ Len(before) + Len(after) <= 1
         /\ StepRun(StepRequests(world, before \o Idles(world) \o after))
         /\ batch' = before \o Idles(world) \o after
         /\ calls' = calls + Len(before \o Idles(world) \o after)
    /\ UNCHANGED menu

SpecAging == InitAging /\ [][StepAging]_vars

\* ------------------------------------------------ the order of a batch
\* Worlds for the request loop: two agents spawned at the origin, so at (0,0,0)
\* and (1,0,0), and a Qi source one cell from both (1,0,0) and (2,0,0) that
\* holds one harvest or two
OrderWorlds ==
    { AddQiSource(SpawnAgentDefault(SpawnAgentDefault(NewWorld, <<"Agent", 1>>, qa, Origin).world,
                                    <<"Agent", 2>>, qb, Origin).world,
                  "Qi", Pos(1, 1, 0), capacity, 0) :
        qa \in {1, 4}, qb \in {1, 4},
        capacity \in {HARVEST_PER_ACTION, 2 * HARVEST_PER_ACTION} }

InitOrder ==
    /\ world \in OrderWorlds
    /\ result = [ op |-> "new" ]
    /\ batch = <<>>
    /\ trace = <<>>
    /\ calls = 0
    /\ menu = "life"

OrderRequests(w) ==
    { Request(id, a) : id \in Known(w),
                       a \in {Move(1, 0, 0), Move(-1, 0, 0), HarvestOre("Qi", 0)} }

\* step(&requests), once, with any request list of the two agents
StepOrder ==
    /\ Running
    /\ calls = 0
    /\ \E actions \in SeqsUpTo(OrderRequests(world), MaxCalls) :
         /\ StepRun(StepRequests(world, actions))
         /\ batch' = actions
         /\ calls' = Max(1, Len(actions))
    /\ UNCHANGED menu

SpecOrder == InitOrder /\ [][StepOrder]_vars

\* ------------------------------------------------------- the wallet store
\* WalletStore.wallets: address -> balance (the Wallet's address is its key).
\* The balances of the model stay far below u32::MAX, where saturating_add is
\* the sum.
WalletAddresses == {"a", "b", "c"}

WalletBalances == {0, 1, 3}

TransferAmounts == 0..3

WalletStores ==
    UNION { { [ wallets |-> f ] : f \in [held -> WalletBalances] } : held \in SUBSET WalletAddresses }

\* WalletStore::get_wallet_mut(address).is_some()
HasWallet(store, address) == address \in DOMAIN store.wallets

\* wallet::transfer: the sender is debited before the recipient is looked up
Transfer(store, from, to, amount) ==
    IF amount = 0 \/ from = to
    THEN [ store |-> store, ok |-> TRUE ]
    ELSE IF ~HasWallet(store, from)
    THEN [ store |-> store, ok |-> FALSE,
           error |-> [ type |-> "sender wallet not found", address |-> from ] ]
    ELSE IF store.wallets[from] < amount
    THEN [ store |-> store, ok |-> FALSE,
           error |-> [ type |-> "insufficient balance", have |-> store.wallets[from],
                       need |-> amount ] ]
    ELSE LET debited == [store EXCEPT !.wallets[from] = @ - amount]
         IN  IF ~HasWallet(debited, to)
             THEN [ store |-> debited, ok |-> FALSE,
                    error |-> [ type |-> "recipient wallet not found", address |-> to ] ]
             ELSE [ store |-> [debited EXCEPT !.wallets[to] = @ + amount], ok |-> TRUE ]

\* the wallet command loads a store; the store is any of WalletStores
InitWallet ==
    /\ world \in WalletStores
    /\ result = [ op |-> "load" ]
    /\ batch = <<>>
    /\ trace = <<>>
    /\ calls = 0
    /\ menu = "wallet"

TransferCall ==
    /\ calls < MaxCalls
    /\ \E from \in WalletAddresses, to \in WalletAddresses, amount \in TransferAmounts :
         LET moved == Transfer(world, from, to, amount)
         IN  /\ world' = moved.store
             /\ result' = [ op |-> "transfer", from |-> from, to |-> to, amount |-> amount,
                             ok |-> moved.ok,
                             error |-> IF moved.ok THEN NoneOpt ELSE Some(moved.error) ]
    /\ calls' = calls + 1
    /\ UNCHANGED <<batch, trace, menu>>

\* the behaviours of a caller that transfers between the wallets of a store
SpecWallet == InitWallet /\ [][TransferCall]_vars

\* ====================================================================
\* Properties of the engine
\* ====================================================================
AfterStep == result.op = "step"

Alive(w, i) == HasAgent(w, i) /\ w.agents[i].alive

\* the world as the requests of the last step left it, before the age enforcement
AfterRequests == trace[Len(trace)].post

\* the events of the last step that report the death of agent i
DeathsOf(i, reason) ==
    { k \in DOMAIN result.events :
        /\ result.events[k].type = "AgentDied"
        /\ result.events[k].agent_id = i
        /\ result.events[k].reason = reason }

\* the successful requests of agent i in the last step
SuccessesOf(i) == { k \in DOMAIN trace : trace[k].ok /\ trace[k].request.agent_id = i }

(* C1: in every reachable state no two alive agents share a position, and the
   occupancy index holds exactly one entry per alive agent, from the agent's
   position to its id: no entry of a dead agent, none for a vacated cell. *)
C1_OccupancyExact ==
    /\ \A i, j \in Known(world) :
         (i # j /\ world.agents[i].alive /\ world.agents[j].alive)
           => world.agents[i].position # world.agents[j].position
    /\ \A p \in DOMAIN world.occupied :
         /\ Alive(world, world.occupied[p])
         /\ world.agents[world.occupied[p]].position = p
    /\ \A i \in Known(world) :
         world.agents[i].alive
           => /\ MapHas(world.occupied, world.agents[i].position)
              /\ world.occupied[world.agents[i].position] = i
    /\ Cardinality(DOMAIN world.occupied)
         = Cardinality({i \in Known(world) : world.agents[i].alive})

\* an alive agent has moved onto the cell where a dead agent lies
C1_Witness ==
    /\ world.tick > 0
    /\ \E i, j \in Known(world) :
         /\ ~world.agents[i].alive
         /\ world.agents[j].alive
         /\ world.agents[j].position = world.agents[i].position
         /\ world.occupied[world.agents[j].position] = j

\* the AgentReproduced events of the last step for the pair {a, b}
ChildrenOf(a, b) ==
    { k \in DOMAIN result.events :
        /\ result.events[k].type = "AgentReproduced"
        /\ {result.events[k].parent_a, result.events[k].parent_b} = {a, b} }

ReproducedOk(a, b) ==
    \E k \in DOMAIN trace :
        /\ trace[k].ok
        /\ trace[k].request.action.kind = "Reproduce"
        /\ {trace[k].request.agent_id, trace[k].request.action.partner} = {a, b}

(* C2: after a step, every pair of agents that reproduced in it (a Reproduce
   request of one toward the other passed) has exactly one child born in that
   step: one AgentReproduced event for the pair, not one per declaring agent. *)
C2_OneChildPerPair ==
    AfterStep =>
      \A a, b \in Known(world) :
        ReproducedOk(a, b) => Cardinality(ChildrenOf(a, b)) = 1

\* the batch of the last step holds a Reproduce request of b toward a
Declared(b, a) ==
    \E j \in DOMAIN batch : batch[j] = Request(b, Reproduce(a))

OneSided(k) ==
    /\ trace[k].request.action.kind = "Reproduce"
    /\ ~Declared(trace[k].request.action.partner, trace[k].request.agent_id)

\* a rejected request created no agent
NoAgentCreated(k) == Len(trace[k].post.agents) = Len(trace[k].pre.agents)

(* C3 as stated: a Reproduce request whose partner made no matching request in
   the same batch is rejected with ReproductionDeclined and creates no agent. *)
C3_OneSidedDeclined ==
    AfterStep =>
      \A k \in DOMAIN trace :
        OneSided(k) => /\ ~trace[k].ok
                       /\ trace[k].error.type = "ReproductionDeclined"
                       /\ NoAgentCreated(k)

\* the requester is alive when request k is resolved, and its partner was known,
\* alive and in the requester's present zone when the step began
PassesPartnerChecks(k) ==
    /\ Alive(trace[k].pre, trace[k].request.agent_id)
    /\ Alive(trace[1].pre, trace[k].request.action.partner)
    /\ ZoneOf(trace[k].pre.agents[trace[k].request.agent_id].position)
         = ZoneOf(trace[1].pre.agents[trace[k].request.action.partner].position)

(* C3 amended: a Reproduce request passes only if the same batch holds the
   partner's Reproduce request toward the requester; a one-sided one creates no
   agent and is rejected, with ReproductionDeclined when the requester is alive
   and the partner was alive and in the requester's zone at the start of the
   step, and with AgentNotFound, AgentDead, PartnerNotFound or PartnerOutOfZone
   otherwise. Consent comes from the batch alone. *)
C3_ConsentInSameBatch ==
    AfterStep =>
      \A k \in DOMAIN trace :
        /\ (trace[k].ok /\ trace[k].request.action.kind = "Reproduce")
             => Declared(trace[k].request.action.partner, trace[k].request.agent_id)
        /\ OneSided(k)
             => /\ ~trace[k].ok
                /\ NoAgentCreated(k)
                /\ trace[k].error.type \in
                     {"AgentNotFound", "AgentDead", "PartnerNotFound", "PartnerOutOfZone",
                      "ReproductionDeclined"}
                /\ PassesPartnerChecks(k) <=> trace[k].error.type = "ReproductionDeclined"

\* in the second tick an agent declares a partner that passes every check but
\* does not declare it back in this batch
C3_Witness ==
    /\ AfterStep
    /\ world.tick = 2
    /\ \E k \in DOMAIN trace :
         /\ OneSided(k)
         /\ PassesPartnerChecks(k)
         /\ trace[k].error.type = "ReproductionDeclined"

(* C4: a step taken when the cap is set and the total Qi (agents, Qi sources,
   recycled pool) is within it leaves the total within the cap, whatever the
   requests. *)
C4_TotalWithinCap ==
    [][ ( /\ world.max_qi_supply.some
          /\ TotalQiSupply(world) <= world.max_qi_supply.v
          /\ result'.op = "step"
          /\ world'.tick = world.tick + 1 )
        => TotalQiSupply(world') <= world'.max_qi_supply.v ]_vars

\* the world of tests::qi_recharge_respects_global_cap: cap 5, one Qi source
\* of capacity 10 and recharge 3, nothing else holding Qi
CapExample(w) ==
    /\ w.max_qi_supply = Some(5)
    /\ Len(w.qi_sources) = 1
    /\ w.qi_sources[1].ore = "Qi"
    /\ w.qi_sources[1].capacity = 10
    /\ w.qi_sources[1].recharge_per_tick = 3
    /\ w.recycled_qi = 0
    /\ w.agents = <<>>

(* C5: with a cap set, the recharge of one tick mints in total at most
   max(0, cap - total before) Qi over all the sources, so the total after is at
   most max(total before, cap); with cap 5 the empty source of capacity 10 and
   recharge 3 goes 0 -> 3 -> 5 and stays at 5. *)
C5_RechargeWithinBudget ==
    [][ (world.max_qi_supply.some /\ world'.tick = world.tick + 1 /\ batch' = <<>>)
        => /\ TotalQiSupply(world') - TotalQiSupply(world)
                <= Max(0, world.max_qi_supply.v - TotalQiSupply(world))
           /\ TotalQiSupply(world') <= Max(TotalQiSupply(world), world.max_qi_supply.v)
           /\ TotalQiSupply(world') = TotalQiSupply(RechargeQiSources(world))
           /\ CapExample(world)
                => /\ world.qi_sources[1].current = 0 => world'.qi_sources[1].current = 3
                   /\ world.qi_sources[1].current = 3 => world'.qi_sources[1].current = 5
                   /\ world.qi_sources[1].current = 5 => world'.qi_sources[1].current = 5
      ]_vars

\* the example source holds 5 after a third tick
C5_Witness ==
    /\ CapExample(world)
    /\ world.tick = 3
    /\ world.qi_sources[1].current = 5

(* C6: after a step, the world after each rejected request is exactly the
   world before it. *)
C6_RejectedUnchanged ==
    AfterStep =>
      \A k \in DOMAIN trace : ~trace[k].ok => trace[k].post = trace[k].pre

\* the rejections of a resolved batch, in request order
RECURSIVE RejectionsIn(_)
RejectionsIn(tr) ==
    IF tr = <<>> THEN <<>>
    ELSE (IF Head(tr).ok THEN <<>>
          ELSE << [ request |-> Head(tr).request, error |-> Head(tr).error ] >>)
         \o RejectionsIn(Tail(tr))

\* a call of step was made
StepTaken == calls' # calls /\ result'.op \notin {"spawn_agent", "kill_agent"}

(* C7: every step resolves every request of its batch and advances the tick
   by one: request k is resolved against the world request k-1 left, with the
   outcome apply_action gives there whatever was rejected before it; the
   rejections are those of the failed requests in request order, and
   rejections plus applied requests count the batch. *)
C7_StepCompletes ==
    [][ StepTaken
        => LET recharged == RechargeQiSources(world)
               mutual_pairs == MutualPairs(Intents(batch'))
               snapshot == Snapshot(recharged)
               Outcome(k) == ApplyAction(trace'[k].pre, batch'[k], mutual_pairs, snapshot)
           IN  /\ result'.op = "step"
               /\ world'.tick = world.tick + 1
               /\ result'.tick = world'.tick
               /\ Len(trace') = Len(batch')
               /\ \A k \in DOMAIN trace' :
                    /\ trace'[k].request = batch'[k]
                    /\ trace'[k].pre = IF k = 1 THEN recharged ELSE trace'[k - 1].post
                    /\ [ ok |-> trace'[k].ok, world |-> trace'[k].post ]
                         = [ f \in {"ok", "world"} |-> Outcome(k)[f] ]
               /\ result'.rejections = RejectionsIn(trace')
               /\ Len(result'.rejections) + Cardinality({k \in DOMAIN trace' : trace'[k].ok})
                    = Len(batch')
      ]_vars

\* a batch where an applied request follows a rejected one
C7_Witness ==
    /\ AfterStep
    /\ \E j, k \in DOMAIN trace :
         /\ j < k
         /\ ~trace[j].ok
         /\ trace[k].ok
         /\ trace[k].post # trace[k].pre
    /\ Len(result.rejections) >= 1

(* C8: at the end of a step no alive agent has age >= max_age: each agent
   alive with age >= max_age once the requests are resolved is dead, its cell is
   not in the occupancy index, and the tick holds exactly one AgentDied event
   for it, with reason Age. *)
C8_NoAliveAtMaxAge ==
    AfterStep =>
      /\ \A i \in Known(world) :
           world.agents[i].alive => world.agents[i].age < world.agents[i].max_age
      /\ trace # <<>> =>
           \A i \in Known(AfterRequests) :
             (AfterRequests.agents[i].alive
                /\ AfterRequests.agents[i].age >= AfterRequests.agents[i].max_age)
               => /\ ~world.agents[i].alive
                  /\ ~MapHas(world.occupied, world.agents[i].position)
                  /\ Cardinality(DeathsOf(i, "Age")) = 1
                  /\ Cardinality(DeathsOf(i, "Hazard")) = 0

\* two agents reach their max_age in one step and both are culled
C8_Witness ==
    /\ AfterStep
    /\ trace # <<>>
    /\ \E i, j \in Known(AfterRequests) :
         /\ i # j
         /\ AfterRequests.agents[i].alive
         /\ AfterRequests.agents[i].age >= AfterRequests.agents[i].max_age
         /\ AfterRequests.agents[j].alive
         /\ AfterRequests.agents[j].age >= AfterRequests.agents[j].max_age
         /\ ~world.agents[i].alive
         /\ ~world.agents[j].alive

(* C9: an agent's age never exceeds its max_age, and an agent that starts a
   step alive at age max_age - 1 and has a request succeed in it is dead of Age
   at the end of that step, whichever the action. *)
C9_DiesExactlyAtMaxAge ==
    /\ \A i \in Known(world) : world.agents[i].age <= world.agents[i].max_age
    /\ (AfterStep /\ trace # <<>>) =>
         \A i \in Known(trace[1].pre) :
           ( /\ trace[1].pre.agents[i].alive
             /\ trace[1].pre.agents[i].age = trace[1].pre.agents[i].max_age - 1
             /\ SuccessesOf(i) # {} )
           => /\ ~world.agents[i].alive
              /\ Cardinality(DeathsOf(i, "Age")) = 1

(* C10: each successful Move takes exactly 1 Qi from the mover, into the
   recycled pool, puts it at its old position plus the delta, takes the old cell
   out of the occupancy index and maps the new cell to the mover, and leaves
   every other agent as it was, also when the move enters another zone. *)
C10_MoveExact ==
    AfterStep =>
      \A k \in DOMAIN trace :
        (trace[k].ok /\ trace[k].request.action.kind = "Move")
          => /\ trace[k].post.agents[trace[k].request.agent_id].qi
                  = trace[k].pre.agents[trace[k].request.agent_id].qi - 1
             /\ trace[k].post.recycled_qi = trace[k].pre.recycled_qi + 1
             /\ trace[k].post.agents[trace[k].request.agent_id].position
                  = Offset(trace[k].pre.agents[trace[k].request.agent_id].position,
                           trace[k].request.action.dx, trace[k].request.action.dy,
                           trace[k].request.action.dz)
             /\ trace[k].post.occupied
                  = MapInsert(MapRemove(trace[k].pre.occupied,
                                        trace[k].pre.agents[trace[k].request.agent_id].position),
                              trace[k].post.agents[trace[k].request.agent_id].position,
                              trace[k].request.agent_id)
             /\ trace[k].post.agents[trace[k].request.agent_id].position
                  # trace[k].pre.agents[trace[k].request.agent_id].position
                  => ~MapHas(trace[k].post.occupied,
                             trace[k].pre.agents[trace[k].request.agent_id].position)
             /\ Len(trace[k].post.agents) = Len(trace[k].pre.agents)
             /\ \A j \in Known(trace[k].pre) \ {trace[k].request.agent_id} :
                  trace[k].post.agents[j] = trace[k].pre.agents[j]

\* a successful move into another zone, beside a second agent
C10_Witness ==
    /\ AfterStep
    /\ \E k \in DOMAIN trace :
         /\ trace[k].ok
         /\ trace[k].request.action.kind = "Move"
         /\ Len(trace[k].pre.agents) >= 2
         /\ ZoneOf(trace[k].post.agents[trace[k].request.agent_id].position)
              # ZoneOf(trace[k].pre.agents[trace[k].request.agent_id].position)
         /\ trace[k].post.agents[trace[k].request.agent_id].qi
              = trace[k].pre.agents[trace[k].request.agent_id].qi - 1

\* the deltas of the request reach beyond MAX_MOVE_RADIUS on some axis
OutOfRadius(action) ==
    \E d \in {action.dx, action.dy, action.dz} : d > MAX_MOVE_RADIUS \/ d < -MAX_MOVE_RADIUS

AtRadius(action) ==
    /\ ~OutOfRadius(action)
    /\ \E d \in {action.dx, action.dy, action.dz} : d = MAX_MOVE_RADIUS \/ d = -MAX_MOVE_RADIUS

(* C11: every Move request of a batch whose deltas reach beyond MAX_MOVE_RADIUS
   is resolved, and when its agent is alive it is rejected with MoveOutOfRange
   and leaves the agent's qi and position as they were; a Move of magnitude
   exactly MAX_MOVE_RADIUS is never rejected with MoveOutOfRange. *)
C11_OutOfRangeRejected ==
    \A k \in DOMAIN batch :
      batch[k].action.kind = "Move" =>
        /\ OutOfRadius(batch[k].action) =>
             /\ k \in DOMAIN trace
             /\ Alive(trace[k].pre, batch[k].agent_id) =>
                  /\ ~trace[k].ok
                  /\ trace[k].error.type = "MoveOutOfRange"
                  /\ trace[k].post.agents[batch[k].agent_id].qi
                       = trace[k].pre.agents[batch[k].agent_id].qi
                  /\ trace[k].post.agents[batch[k].agent_id].position
                       = trace[k].pre.agents[batch[k].agent_id].position
        /\ (AtRadius(batch[k].action) /\ k \in DOMAIN trace /\ ~trace[k].ok)
             => trace[k].error.type # "MoveOutOfRange"

\* where the Move request k would put its agent
Destination(k) ==
    Offset(trace[k].pre.agents[trace[k].request.agent_id].position,
           trace[k].request.action.dx, trace[k].request.action.dy, trace[k].request.action.dz)

\* the other agents that are alive on cell p when request k is resolved
BlockersOf(k, p) ==
    { j \in Known(trace[k].pre) \ {trace[k].request.agent_id} :
        trace[k].pre.agents[j].alive /\ trace[k].pre.agents[j].position = p }

InRangeMove(k) ==
    /\ trace[k].request.action.kind = "Move"
    /\ ~OutOfRadius(trace[k].request.action)
    /\ Alive(trace[k].pre, trace[k].request.agent_id)

(* C12: an in-range Move of an alive agent is rejected with PositionOccupied
   exactly when another alive agent holds the destination cell when the request
   is resolved; the error names that cell and that agent, and the world is left
   as it was. A cell where only dead agents lie blocks nothing. *)
C12_OccupiedExactly ==
    AfterStep =>
      \A k \in DOMAIN trace :
        InRangeMove(k) =>
          /\ (~trace[k].ok /\ trace[k].error.type = "PositionOccupied")
               <=> BlockersOf(k, Destination(k)) # {}
          /\ BlockersOf(k, Destination(k)) # {} =>
               /\ trace[k].error.target = Destination(k)
               /\ BlockersOf(k, Destination(k)) = {trace[k].error.occupied_by}
               /\ trace[k].post = trace[k].pre

\* a move onto the cell where a dead agent lies has passed
C12_Witness ==
    /\ AfterStep
    /\ \E k \in DOMAIN trace :
         /\ InRangeMove(k)
         /\ trace[k].ok
         /\ BlockersOf(k, Destination(k)) = {}
         /\ \E j \in Known(trace[k].pre) :
              /\ ~trace[k].pre.agents[j].alive
              /\ trace[k].pre.agents[j].position = Destination(k)

\* request k is a HarvestOre of an agent alive when it is resolved
HarvestBy(k) ==
    /\ trace[k].request.action.kind = "HarvestOre"
    /\ Alive(trace[k].pre, trace[k].request.agent_id)

Harvester(k) == trace[k].pre.agents[trace[k].request.agent_id]

\* the source the request selects: the nearest one for source_id 0, else the
\* source of that id and kind
Chosen(k) ==
    IF trace[k].request.action.source_id = 0
    THEN NearestOreSource(trace[k].pre.qi_sources, trace[k].request.action.ore,
                          Harvester(k).position)
    ELSE IF FindSource(trace[k].pre.qi_sources, trace[k].request.action.source_id,
                       trace[k].request.action.ore) = 0
    THEN NoneOpt
    ELSE Some(trace[k].pre.qi_sources[
                FindSource(trace[k].pre.qi_sources, trace[k].request.action.source_id,
                           trace[k].request.action.ore)])

\* the selected source is within HARVEST_RANGE of the agent
InReach(k) ==
    /\ Chosen(k).some
    /\ WithinRange(Harvester(k).position, Chosen(k).v.position, HARVEST_RANGE)

\* request k took amount from source i and from no other source
DrainedOnly(k, i, amount) ==
    /\ Len(trace[k].post.qi_sources) = Len(trace[k].pre.qi_sources)
    /\ \A j \in DOMAIN trace[k].pre.qi_sources :
         trace[k].post.qi_sources[j]
           = IF j = i
             THEN [trace[k].pre.qi_sources[j] EXCEPT !.current = @ - amount]
             ELSE trace[k].pre.qi_sources[j]

(* C13: a successful HarvestOre takes exactly HARVEST_PER_ACTION (3) from the
   selected source and from no other, credits 3 to the agent's balance of that
   ore and charges 1 Qi (a Qi harvest nets +2 qi, a Transistor harvest +3
   transistors and -1 qi); when the selected source, within reach, holds less
   than 3 the request is rejected with OreSourceDepleted and the world is
   unchanged; with 3 or more and 1 Qi it succeeds. *)
C13_HarvestExact ==
    AfterStep =>
      \A k \in DOMAIN trace :
        HarvestBy(k) =>
          /\ trace[k].ok =>
               /\ InReach(k)
               /\ Chosen(k).v.ore = trace[k].request.action.ore
               /\ DrainedOnly(k, Chosen(k).v.id, HARVEST_PER_ACTION)
               /\ trace[k].post.agents[trace[k].request.agent_id].qi
                    = Harvester(k).qi - 1
                        + (IF trace[k].request.action.ore = "Qi" THEN HARVEST_PER_ACTION ELSE 0)
               /\ trace[k].post.agents[trace[k].request.agent_id].transistors
                    = Harvester(k).transistors
                        + (IF trace[k].request.action.ore = "Transistor"
                           THEN HARVEST_PER_ACTION ELSE 0)
          /\ (InReach(k) /\ Chosen(k).v.current < HARVEST_PER_ACTION) =>
               /\ ~trace[k].ok
               /\ trace[k].error.type = "OreSourceDepleted"
               /\ trace[k].error.source_id = Chosen(k).v.id
               /\ trace[k].error.available = Chosen(k).v.current
               /\ trace[k].post = trace[k].pre
          /\ (InReach(k) /\ Chosen(k).v.current >= HARVEST_PER_ACTION /\ Harvester(k).qi >= 1)
               => trace[k].ok

\* two harvests of one source in one batch both pass, and a third would not
C13_Witness ==
    /\ AfterStep
    /\ Len(trace) = 2
    /\ trace[1].ok /\ HarvestBy(1)
    /\ trace[2].ok /\ HarvestBy(2)
    /\ Chosen(1).v.id = Chosen(2).v.id
    /\ \E i \in DOMAIN world.qi_sources :
         /\ world.qi_sources[i].id = Chosen(2).v.id
         /\ world.qi_sources[i].current = 1

\* b lies within r of a on one axis, a being far from the ends of i32
Near(a, b, r) == b >= a - r /\ b <= a + r

\* the sources a source_id 0 request may select: of the kind, not empty, and
\* within SCAN_RANGE of the agent on every axis
Candidates(k) ==
    { i \in DOMAIN trace[k].pre.qi_sources :
        /\ trace[k].pre.qi_sources[i].ore = trace[k].request.action.ore
        /\ trace[k].pre.qi_sources[i].current > 0
        /\ Near(Harvester(k).position.x, trace[k].pre.qi_sources[i].position.x, SCAN_RANGE)
        /\ Near(Harvester(k).position.y, trace[k].pre.qi_sources[i].position.y, SCAN_RANGE)
        /\ Near(Harvester(k).position.z, trace[k].pre.qi_sources[i].position.z, SCAN_RANGE) }

\* the Manhattan distance from the agent of request k to candidate i
Distance(k, i) ==
    Abs(Harvester(k).position.x - trace[k].pre.qi_sources[i].position.x)
      + Abs(Harvester(k).position.y - trace[k].pre.qi_sources[i].position.y)
      + Abs(Harvester(k).position.z - trace[k].pre.qi_sources[i].position.z)

\* the candidates no other candidate beats: nearer, or as near and seeded earlier
Nearest(k) ==
    { i \in Candidates(k) :
        \A j \in Candidates(k) :
            \/ Distance(k, i) < Distance(k, j)
            \/ Distance(k, i) = Distance(k, j) /\ i <= j }

(* C14: a HarvestOre with source_id 0 selects, among the sources of the ore
   kind with current > 0 within Chebyshev SCAN_RANGE (8) of the agent, the one
   of the least Manhattan distance, the first seeded of those at a tie: a
   success drains that source, an OreSourceDepleted names it, and no source is
   selected when there is no such source. *)
C14_NearestSelected ==
    AfterStep =>
      \A k \in DOMAIN trace :
        (HarvestBy(k) /\ trace[k].request.action.source_id = 0) =>
          /\ Chosen(k).some = (Candidates(k) # {})
          /\ Chosen(k).some => Nearest(k) = {Chosen(k).v.id}
          /\ trace[k].ok =>
               \E i \in Nearest(k) : DrainedOnly(k, i, HARVEST_PER_ACTION)
          /\ (~trace[k].ok /\ trace[k].error.type = "OreSourceDepleted") =>
               \E i \in Nearest(k) :
                  trace[k].error.source_id = trace[k].pre.qi_sources[i].id

(* C15: a HarvestOre with source_id 0 is rejected with OreSourceUnavailable
   only when no non-empty source of the kind lies within SCAN_RANGE of the
   agent; whenever one does, the request is resolved against the nearest one:
   it succeeds, or is rejected with OreSourceDepleted or InsufficientQi. *)
C15_UnavailableOnlyWithoutSource ==
    AfterStep =>
      \A k \in DOMAIN trace :
        (HarvestBy(k) /\ trace[k].request.action.source_id = 0) =>
          /\ (~trace[k].ok /\ trace[k].error.type = "OreSourceUnavailable")
               => Candidates(k) = {}
          /\ Candidates(k) # {} =>
               \/ trace[k].ok
               \/ trace[k].error.type \in {"OreSourceDepleted", "InsufficientQi"}

\* the sources a request naming a source may be applied to: of that id, of the
\* kind, and within HARVEST_RANGE of the agent on every axis
Eligible(k) ==
    { i \in DOMAIN trace[k].pre.qi_sources :
        /\ trace[k].pre.qi_sources[i].id = trace[k].request.action.source_id
        /\ trace[k].pre.qi_sources[i].ore = trace[k].request.action.ore
        /\ Near(Harvester(k).position.x, trace[k].pre.qi_sources[i].position.x, HARVEST_RANGE)
        /\ Near(Harvester(k).position.y, trace[k].pre.qi_sources[i].position.y, HARVEST_RANGE)
        /\ Near(Harvester(k).position.z, trace[k].pre.qi_sources[i].position.z, HARVEST_RANGE) }

(* C16: a HarvestOre naming a source (source_id other than 0) is applied only
   if a source of that id exists, is of the requested kind and lies within
   Chebyshev HARVEST_RANGE (1) of the agent; otherwise it is rejected with
   OreSourceUnavailable carrying that source id and the world, the agent's qi
   included, is unchanged.  An applied request is resolved against that
   source alone. *)
C16_NamedSourceEligible ==
    AfterStep =>
      \A k \in DOMAIN trace :
        (HarvestBy(k) /\ trace[k].request.action.source_id # 0) =>
          /\ Eligible(k) = {} =>
               /\ ~trace[k].ok
               /\ trace[k].error.type = "OreSourceUnavailable"
               /\ trace[k].error.source_id = Some(trace[k].request.action.source_id)
               /\ trace[k].post = trace[k].pre
          /\ Eligible(k) # {} =>
               /\ ~trace[k].ok => trace[k].error.type \in {"OreSourceDepleted", "InsufficientQi"}
               /\ trace[k].ok =>
                    \E i \in Eligible(k) : DrainedOnly(k, i, HARVEST_PER_ACTION)

\* request k is a BuildStructure of an agent alive when it is resolved
BuildBy(k) ==
    /\ trace[k].request.action.kind = "BuildStructure"
    /\ Alive(trace[k].pre, trace[k].request.agent_id)

Builder(k) == trace[k].pre.agents[trace[k].request.agent_id]

BuilderAfter(k) == trace[k].post.agents[trace[k].request.agent_id]

\* the cell of the builder already holds a structure
OnStructure(k) ==
    \E i \in DOMAIN trace[k].pre.structures :
        trace[k].pre.structures[i].position = Builder(k).position

\* a passing build takes 1 Qi, and 1 transistor if and only if it is Programmable
BuildCharged(k) ==
    /\ BuilderAfter(k).qi = Builder(k).qi - 1
    /\ BuilderAfter(k).transistors
         = Builder(k).transistors
             - (IF trace[k].request.action.skind = "Programmable" THEN 1 ELSE 0)
    /\ Len(trace[k].post.structures) = Len(trace[k].pre.structures) + 1

\* a Programmable build of a builder without transistors is declined for want
\* of ore, and nothing changes
DeclinedForOre(k) ==
    /\ ~trace[k].ok
    /\ trace[k].error.type = "InsufficientOre"
    /\ BuilderAfter(k).qi = Builder(k).qi
    /\ BuilderAfter(k).transistors = Builder(k).transistors
    /\ trace[k].post.structures = trace[k].pre.structures

(* C17 as stated: every BuildStructure{Programmable} of an agent with 0
   transistors is rejected with InsufficientOre, the agent's qi and transistors
   and the structures unchanged; a successful Programmable build consumes
   exactly 1 transistor and 1 Qi, a successful Basic or Qi build exactly 1 Qi
   and no transistor. *)
C17_ProgrammableNeedsOre ==
    AfterStep =>
      \A k \in DOMAIN trace :
        BuildBy(k) =>
          /\ (trace[k].request.action.skind = "Programmable" /\ Builder(k).transistors = 0)
               => DeclinedForOre(k)
          /\ trace[k].ok => BuildCharged(k)

(* C17 amended: a BuildStructure{Programmable} of an agent with 0 transistors
   on a cell that holds no structure is rejected with InsufficientOre, the
   agent's qi and transistors and the structures unchanged; on a cell that
   holds a structure it is rejected with StructureSpaceOccupied, equally
   without any change.  A successful Programmable build consumes exactly 1
   transistor and 1 Qi, a successful Basic or Qi build exactly 1 Qi and no
   transistor. *)
C17_ProgrammableNeedsOreOnFreeCell ==
    AfterStep =>
      \A k \in DOMAIN trace :
        BuildBy(k) =>
          /\ (trace[k].request.action.skind = "Programmable" /\ Builder(k).transistors = 0)
               => IF OnStructure(k)
                  THEN /\ ~trace[k].ok
                       /\ trace[k].error.type = "StructureSpaceOccupied"
                       /\ trace[k].post = trace[k].pre
                  ELSE DeclinedForOre(k)
          /\ trace[k].ok => BuildCharged(k)

\* a Programmable build has passed, and the builder has a Qi structure too
C17_Witness ==
    /\ AfterStep
    /\ Len(trace) = 1
    /\ BuildBy(1)
    /\ trace[1].ok
    /\ trace[1].request.action.skind = "Programmable"
    /\ \E i \in DOMAIN world.structures : world.structures[i].kind = "Qi"

\* s is t, or t with structures appended
Extends(s, t) == Len(s) >= Len(t) /\ SubSeq(s, 1, Len(t)) = t

\* no two structures of w on one cell, and the ids 1, 2, 3, ... in build order
StructuresInOrder(w) ==
    /\ \A i, j \in DOMAIN w.structures :
         w.structures[i].position = w.structures[j].position => i = j
    /\ \A i \in DOMAIN w.structures : w.structures[i].id = i
    /\ w.next_structure_id = Len(w.structures) + 1

\* every build onto a structure in the last step was declined and changed nothing
DeclinedOnStructure ==
    \A k \in DOMAIN trace :
        (BuildBy(k) /\ OnStructure(k)) =>
            /\ ~trace[k].ok
            /\ trace[k].error.type = "StructureSpaceOccupied"
            /\ trace[k].post = trace[k].pre

(* C18: after every operation no two structures have the same position; a
   BuildStructure on a cell that already holds a structure is rejected with
   StructureSpaceOccupied and changes nothing (no Qi charged, no id consumed);
   the structures built earlier stay as they were, in their order, new ones
   are only appended; the ids are 1, 2, 3, ... in build order. *)
C18_StructuresDistinctAndKept ==
    [][ /\ StructuresInOrder(world')
        /\ Extends(world'.structures, world.structures)
        /\ DeclinedOnStructure' ]_vars

\* a build onto the second of two structures has been declined
C18_Witness ==
    /\ AfterStep
    /\ Len(world.structures) = 2
    /\ Len(trace) = 1
    /\ BuildBy(1)
    /\ OnStructure(1)
    /\ ~trace[1].ok

\* every source of w holds between 0 and its capacity
WithinCapacity(w) ==
    \A i \in DOMAIN w.qi_sources :
        /\ 0 <= w.qi_sources[i].current
        /\ w.qi_sources[i].current <= w.qi_sources[i].capacity

\* the sources of w are still listed in v, in place, only their level changed
SourcesKept(w, v) ==
    /\ Len(v.qi_sources) >= Len(w.qi_sources)
    /\ \A i \in DOMAIN w.qi_sources :
         [v.qi_sources[i] EXCEPT !.current = 0] = [w.qi_sources[i] EXCEPT !.current = 0]

(* C19: every ore source holds 0 <= current <= capacity before and after
   every operation (seeding, the recharge of a tick, each harvest of a batch,
   several harvests of one source in one tick included), and no source is ever
   removed or replaced: a drained source stays in the list with current = 0. *)
C19_SourcesWithinCapacityAndKept ==
    [][ /\ WithinCapacity(world)
        /\ WithinCapacity(world')
        /\ SourcesKept(world, world')
        /\ \A k \in DOMAIN trace' :
             /\ WithinCapacity(trace'[k].post)
             /\ SourcesKept(trace'[k].pre, trace'[k].post) ]_vars

\* a harvest has drained a source, a second harvest of it in the same tick was
\* declined, and the source is still listed, empty
C19_Witness ==
    /\ AfterStep
    /\ \E k, l \in DOMAIN trace :
         /\ k < l
         /\ HarvestBy(k) /\ trace[k].ok
         /\ HarvestBy(l) /\ ~trace[l].ok /\ trace[l].error.type = "OreSourceDepleted"
         /\ Chosen(k).v.id = trace[l].error.source_id
         /\ world.qi_sources[Chosen(k).v.id].current = 0

\* what source i of w may gain in one recharge: min(capacity - current, recharge_per_tick)
Want(w, i) ==
    Min(w.qi_sources[i].capacity - w.qi_sources[i].current, w.qi_sources[i].recharge_per_tick)

\* what the Qi sources listed before source i want together
WantBefore(w, i) ==
    SumSeq([j \in 1..(i - 1) |-> IF w.qi_sources[j].ore = "Qi" THEN Want(w, j) ELSE 0])

\* the recycled pool when the recharge reaches source i, the sources before it
\* having drawn on it first
PoolAt(w, i) == SatSub(w.recycled_qi, WantBefore(w, i))

\* what source i gained from w to v
Gain(w, v, i) == v.qi_sources[i].current - w.qi_sources[i].current

\* the part of the gain of source i that the pool could not give
Minted(w, v, i) == Gain(w, v, i) - Min(PoolAt(w, i), Want(w, i))

\* the supply budget covers whatever the Qi sources of w want
BudgetCovers(w) ==
    \/ ~w.max_qi_supply.some
    \/ w.max_qi_supply.v - TotalQiSupply(w) >= WantBefore(w, Len(w.qi_sources) + 1)

(* C20: in the recharge of one tick each Qi source gains at most
   min(capacity - current, recharge_per_tick); the gain comes from the
   recycled pool first (the source takes all the pool can give of what it
   wants, and the pool loses exactly that), and Qi is minted into a source
   only when the pool is empty after that source has drawn on it; with an
   empty pool and a budget that covers it a Qi source gains exactly
   min(headroom, recharge_per_tick); a source of another ore gains
   min(headroom, recharge_per_tick) whatever the pool and the cap. *)
C20_RechargePoolFirst ==
    [][ (world'.tick = world.tick + 1 /\ batch' = <<>>) =>
          /\ \A i \in DOMAIN world.qi_sources :
               IF world.qi_sources[i].ore = "Qi"
               THEN /\ Gain(world, world', i) <= Want(world, i)
                    /\ Minted(world, world', i) >= 0
                    /\ Minted(world, world', i) > 0 => PoolAt(world, i + 1) = 0
                    /\ (world.recycled_qi = 0 /\ BudgetCovers(world))
                         => Gain(world, world', i) = Want(world, i)
               ELSE Gain(world, world', i) = Want(world, i)
          /\ world'.recycled_qi = PoolAt(world, Len(world.qi_sources) + 1)
      ]_vars

\* after one tick a Qi source that was empty has gained its whole rate from a
\* pool that is not yet empty, and the Transistor source beside it its own rate
C20_Witness ==
    /\ world.tick = 1
    /\ Len(world.qi_sources) = 2
    /\ world.qi_sources[1].ore = "Qi"
    /\ world.qi_sources[1].current = world.qi_sources[1].recharge_per_tick
    /\ world.qi_sources[1].current < world.qi_sources[1].capacity
    /\ world.qi_sources[2].ore = "Transistor"
    /\ world.qi_sources[2].current = world.qi_sources[2].recharge_per_tick
    /\ world.recycled_qi > 0

\* the request at k of the last step was turned away, the world untouched
TurnedAway(k, type) ==
    /\ ~trace[k].ok
    /\ trace[k].error = [ type |-> type, agent_id |-> trace[k].request.agent_id ]
    /\ trace[k].events = <<>>
    /\ trace[k].post = trace[k].pre

\* every request of the last step for an unknown or a dead agent was turned away
LookupRejects ==
    \A k \in DOMAIN trace :
        /\ ~HasAgent(trace[k].pre, trace[k].request.agent_id) => TurnedAway(k, "AgentNotFound")
        /\ (HasAgent(trace[k].pre, trace[k].request.agent_id)
              /\ ~trace[k].pre.agents[trace[k].request.agent_id].alive)
             => TurnedAway(k, "AgentDead")

\* no agent of w that is dead is alive in v, within a step or across operations
NoRevival(w, v) ==
    \A i \in DOMAIN w.agents : ~w.agents[i].alive => (HasAgent(v, i) /\ ~v.agents[i].alive)

(* C21: a request for an agent id that was never spawned is rejected with
   AgentNotFound, a request for a dead agent with AgentDead, whatever the kind
   of the action (Idle and Scan included), and the world is left as it was; no
   operation and no request turns an agent's alive flag from false to true. *)
C21_UnknownAndDeadRejected ==
    [][ /\ LookupRejects'
        /\ NoRevival(world, world')
        /\ \A k \in DOMAIN trace' : NoRevival(trace'[k].pre, trace'[k].post) ]_vars

\* a Scan of an agent that died of age has been turned away
C21_Witness ==
    /\ AfterStep
    /\ Len(trace) = 1
    /\ trace[1].request.action.kind = "Scan"
    /\ HasAgent(trace[1].pre, trace[1].request.agent_id)
    /\ ~trace[1].pre.agents[trace[1].request.agent_id].alive
    /\ \E e \in DOMAIN world.events :
         world.events[e] = [ type |-> "AgentDied", agent_id |-> trace[1].request.agent_id,
                             reason |-> "Age" ]

\* agent i is alive in w and dead in v
DiesBetween(w, v, i) == Alive(w, i) /\ HasAgent(v, i) /\ ~v.agents[i].alive

(* C22: running out of Qi never kills an agent.  An agent's alive flag turns
   false only in a kill_agent call for that agent, or in the age enforcement
   at the end of a step, and then the agent had age >= max_age once the
   requests were resolved; no request kills an agent, so an agent whose qi
   reaches 0 below its max_age is alive after the step. *)
C22_DeathOnlyByAgeOrKill ==
    [][ /\ \A k \in DOMAIN trace' :
             \A i \in DOMAIN trace'[k].pre.agents : ~DiesBetween(trace'[k].pre, trace'[k].post, i)
        /\ \A i \in DOMAIN world.agents :
             DiesBetween(world, world', i) =>
                \/ result'.op = "kill_agent" /\ result'.agent_id = i
                \/ /\ result'.op = "step"
                   /\ IF trace' = <<>>
                      THEN world.agents[i].age >= world.agents[i].max_age
                      ELSE /\ trace'[Len(trace')].post.agents[i].alive
                           /\ trace'[Len(trace')].post.agents[i].age
                                >= trace'[Len(trace')].post.agents[i].max_age ]_vars

\* an agent has spent its last Qi on a move and is alive after the step
C22_Witness ==
    /\ AfterStep
    /\ \E k \in DOMAIN trace :
         /\ trace[k].ok
         /\ trace[k].request.action.kind = "Move"
         /\ trace[k].pre.agents[trace[k].request.agent_id].qi = 1
         /\ world.agents[trace[k].request.agent_id].qi = 0
         /\ world.agents[trace[k].request.agent_id].alive

\* the agent ids of the AgentSpawned events of a log, in log order
RECURSIVE SpawnedIds(_)
SpawnedIds(events) ==
    IF events = <<>> THEN <<>>
    ELSE (IF Head(events).type = "AgentSpawned" THEN << Head(events).agent_id >> ELSE <<>>)
           \o SpawnedIds(Tail(events))

\* the agents of w carry the ids 1, 2, 3, ... in the order they were spawned, and
\* the counter stands one past the last
IdsInSpawnOrder(w) ==
    /\ \A i \in DOMAIN w.agents : w.agents[i].id = i
    /\ w.next_agent_id = Len(w.agents) + 1
    /\ SpawnedIds(w.events) = [i \in 1..Len(w.agents) |-> i]

\* every agent of w is still known in v, under its id and its name
AgentsKept(w, v) ==
    /\ Len(v.agents) >= Len(w.agents)
    /\ v.next_agent_id >= w.next_agent_id
    /\ \A i \in DOMAIN w.agents :
         /\ v.agents[i].id = w.agents[i].id
         /\ v.agents[i].name = w.agents[i].name

(* C23: agent ids are 1, 2, 3, ... in spawn order, the children of a
   reproduction included, pairwise distinct and never given twice, also after
   a death; a dead agent stays in the agent map, so the known ids only grow;
   a rejected request, a rejected Reproduce in particular, consumes no id. *)
C23_IdsMonotonic ==
    [][ /\ IdsInSpawnOrder(world')
        /\ AgentsKept(world, world')
        /\ \A k \in DOMAIN trace' :
             /\ IdsInSpawnOrder(trace'[k].post)
             /\ AgentsKept(trace'[k].pre, trace'[k].post)
             /\ ~trace'[k].ok =>
                  /\ trace'[k].post.next_agent_id = trace'[k].pre.next_agent_id
                  /\ Len(trace'[k].post.agents) = Len(trace'[k].pre.agents) ]_vars

\* the second agent was spawned onto the cell of the first, dead by then, and
\* got the id 2
C23_Witness ==
    /\ Len(world.agents) >= 2
    /\ ~world.agents[1].alive
    /\ world.agents[2].alive
    /\ world.agents[2].position = world.agents[1].position
    /\ world.agents[2].age = 0

\* q lies within r of p on every axis, p being far from the ends of i32
InBox(p, q, r) == Near(p.x, q.x, r) /\ Near(p.y, q.y, r) /\ Near(p.z, q.z, r)

\* what a scan from position must list of the sources and the structures of w
SourcesInSight(w, position) ==
    { [ id |-> w.qi_sources[i].id, ore |-> w.qi_sources[i].ore,
        position |-> w.qi_sources[i].position, available |-> w.qi_sources[i].current,
        capacity |-> w.qi_sources[i].capacity ] :
        i \in { j \in DOMAIN w.qi_sources : InBox(position, w.qi_sources[j].position, SCAN_RANGE) } }

StructuresInSight(w, position) ==
    { [ id |-> w.structures[i].id, kind |-> w.structures[i].kind,
        position |-> w.structures[i].position ] :
        i \in { j \in DOMAIN w.structures : InBox(position, w.structures[j].position, SCAN_RANGE) } }

\* the entries of a list, as a set
Listed(list) == { list[i] : i \in DOMAIN list }

\* the scan reports among the events of request k
ReportsOf(k) == SelectSeq(trace[k].events, LAMBDA e : e.type = "ScanReport")

(* C24: the ScanReport of a Scan lists exactly the ore sources (of every kind,
   the empty ones included) and exactly the structures within Chebyshev
   SCAN_RANGE (8) of the scanning agent, each once, each source with its id,
   kind, position, capacity and its level at the moment the request is
   resolved, together with the agent's id, position and qi; a source at its
   capacity before a step that holds the scan alone is reported with
   available = capacity. *)
C24_ScanReportExact ==
    AfterStep =>
      \A k \in DOMAIN trace :
        (trace[k].request.action.kind = "Scan" /\ Alive(trace[k].pre, trace[k].request.agent_id))
          => /\ trace[k].ok
             /\ Len(ReportsOf(k)) = 1
             /\ ReportsOf(k)[1].agent_id = trace[k].request.agent_id
             /\ ReportsOf(k)[1].position = trace[k].pre.agents[trace[k].request.agent_id].position
             /\ ReportsOf(k)[1].qi = trace[k].pre.agents[trace[k].request.agent_id].qi
             /\ Listed(ReportsOf(k)[1].nearby_qi_sources)
                  = SourcesInSight(trace[k].pre, ReportsOf(k)[1].position)
             /\ Len(ReportsOf(k)[1].nearby_qi_sources)
                  = Cardinality(SourcesInSight(trace[k].pre, ReportsOf(k)[1].position))
             /\ Listed(ReportsOf(k)[1].nearby_structures)
                  = StructuresInSight(trace[k].pre, ReportsOf(k)[1].position)
             /\ Len(ReportsOf(k)[1].nearby_structures)
                  = Cardinality(StructuresInSight(trace[k].pre, ReportsOf(k)[1].position))

\* request k is a Scan or an Idle of an agent alive when it is resolved
FreeActBy(k) ==
    /\ trace[k].request.action.kind \in {"Scan", "Idle"}
    /\ Alive(trace[k].pre, trace[k].request.agent_id)

(* C25: a Scan or an Idle of an alive agent always succeeds, whatever the
   agent's Qi (0 included), and changes nothing in the world but that agent's
   age, which grows by 1: qi, transistors, positions, occupancy, sources,
   structures and recycled_qi are as before. *)
C25_ScanAndIdleFree ==
    AfterStep =>
      \A k \in DOMAIN trace :
        FreeActBy(k) =>
          /\ trace[k].ok
          /\ trace[k].post
               = [trace[k].pre EXCEPT !.agents[trace[k].request.agent_id].age = @ + 1]

\* a Scan of an agent without Qi has passed
C25_Witness ==
    /\ AfterStep
    /\ \E k \in DOMAIN trace :
         /\ FreeActBy(k)
         /\ trace[k].request.action.kind = "Scan"
         /\ trace[k].pre.agents[trace[k].request.agent_id].qi = 0
         /\ trace[k].ok
         /\ world.agents[trace[k].request.agent_id].alive

\* request k is a Reproduce of an agent alive when it is resolved
ReproduceBy(k) ==
    /\ trace[k].request.action.kind = "Reproduce"
    /\ Alive(trace[k].pre, trace[k].request.agent_id)

Initiator(k) == trace[k].request.agent_id

Partner(k) == trace[k].request.action.partner

\* the agent that request k added to the map
Newborn(k) == trace[k].post.agents[Len(trace[k].post.agents)]

\* a passing Reproduce takes 1 Qi from the initiator, leaves the partner as it
\* was, and adds one agent: alive, with 1 Qi, no transistors, age 0, named
\* after the initiator and the partner in that order
ChildBorn(k) ==
    /\ trace[k].post.agents[Initiator(k)].qi = trace[k].pre.agents[Initiator(k)].qi - 1
    /\ Partner(k) # Initiator(k)
         => trace[k].post.agents[Partner(k)] = trace[k].pre.agents[Partner(k)]
    /\ Len(trace[k].post.agents) = Len(trace[k].pre.agents) + 1
    /\ Newborn(k).alive
    /\ Newborn(k).qi = 1
    /\ Newborn(k).transistors = 0
    /\ Newborn(k).age = 0
    /\ Newborn(k).name = <<"Child", Initiator(k), Partner(k)>>

\* the partner that the last Reproduce request of agent x in the batch names,
\* 0 if x sent none
LastIntent(x) ==
    LET mine == { j \in DOMAIN batch :
                    batch[j].agent_id = x /\ batch[j].action.kind = "Reproduce" }
    IN  IF mine = {} THEN 0
        ELSE batch[CHOOSE j \in mine : \A i \in mine : i <= j].action.partner

\* the initiator and the partner of request k name each other in the batch
Consenting(k) ==
    /\ LastIntent(Initiator(k)) = Partner(k)
    /\ LastIntent(Partner(k)) = Initiator(k)

(* C26 as stated: a successful Reproduce charges exactly 1 Qi to the initiator
   and nothing to the partner, and creates a new alive agent with qi = 1,
   transistors = 0, age = 0 and the name Child-<initiator id>-<partner id>;
   every Reproduce of an initiator with 0 Qi is rejected with InsufficientQi
   and creates no child. *)
C26_ReproduceCharges ==
    AfterStep =>
      \A k \in DOMAIN trace :
        ReproduceBy(k) =>
          /\ trace[k].ok => ChildBorn(k)
          /\ trace[k].pre.agents[Initiator(k)].qi = 0 =>
               /\ ~trace[k].ok
               /\ trace[k].error.type = "InsufficientQi"
               /\ NoAgentCreated(k)

(* C26 amended: a successful Reproduce charges exactly 1 Qi to the initiator
   and nothing to the partner, and creates a new alive agent with qi = 1,
   transistors = 0, age = 0 and the name Child-<initiator id>-<partner id>; a
   Reproduce of an initiator with 0 Qi is always rejected and creates no child,
   with InsufficientQi when the partner was alive and in the initiator's zone
   at the start of the step and the two name each other in the batch (the last
   Reproduce request of each names the other), and with PartnerNotFound,
   PartnerOutOfZone or ReproductionDeclined, which are checked before the
   charge, otherwise. *)
C26_ReproduceChargesAfterConsent ==
    AfterStep =>
      \A k \in DOMAIN trace :
        ReproduceBy(k) =>
          /\ trace[k].ok => ChildBorn(k)
          /\ trace[k].pre.agents[Initiator(k)].qi = 0 =>
               /\ ~trace[k].ok
               /\ NoAgentCreated(k)
               /\ trace[k].error.type \in
                    {"InsufficientQi", "PartnerNotFound", "PartnerOutOfZone",
                     "ReproductionDeclined"}
               /\ (PassesPartnerChecks(k) /\ Consenting(k))
                    <=> trace[k].error.type = "InsufficientQi"

\* of a pair that declared each other, the one with Qi got a child and the one
\* without was turned away for want of Qi
C26_Witness ==
    /\ AfterStep
    /\ \E k, l \in DOMAIN trace :
         /\ ReproduceBy(k) /\ trace[k].ok
         /\ ReproduceBy(l) /\ ~trace[l].ok /\ trace[l].error.type = "InsufficientQi"
         /\ Initiator(l) = Partner(k)
         /\ Partner(l) = Initiator(k)
         /\ Initiator(k) > Partner(k)

\* ---- C27
\* the cell position + (k, 0, 0) for the smallest k >= 0 that is not in the
\* occupancy index, counted on the integers: a cell past x = i32::MAX is no cell
Landed(occupied, position, pos) ==
    \E k \in 0..Cardinality(DOMAIN occupied) :
        /\ position.x <= I32_MAX - k
        /\ pos = Pos(position.x + k, position.y, position.z)
        /\ ~MapHas(occupied, pos)
        /\ \A j \in 0..(k - 1) : MapHas(occupied, Pos(position.x + j, position.y, position.z))

SpawnCalled == calls' = calls + 1 /\ result'.op \in {"spawn_agent", "panic"}

SpawnPlaced ==
    /\ result'.op = "spawn_agent"
    /\ LET agent == world'.agents[result'.id]
       IN  /\ Landed(world.occupied, result'.position, agent.position)
           /\ agent.discovered_zones = {ZoneOf(agent.position)}
           /\ world'.events =
                Append(world.events, [type |-> "AgentSpawned", agent_id |-> agent.id,
                                      name |-> agent.name, qi |-> agent.qi,
                                      position |-> agent.position])

\* C27: spawn_agent never fails; it places the new agent at the requested position
\* + (k, 0, 0) for the smallest k >= 0 whose cell is not in the occupancy index,
\* records the zone of the final position in discovered_zones, and appends one
\* AgentSpawned event carrying the final position
C27_SpawnPlacement == [][SpawnCalled => SpawnPlaced]_vars

\* the same away from the last cell of the x axis
C27_SpawnPlacementInside ==
    [][(SpawnCalled /\ result'.position.x < I32_MAX) => SpawnPlaced]_vars

\* ---- C28
\* the positions of the events of one type and tick in a log
TickMarks(log, type, t) == { k \in DOMAIN log : log[k].type = type /\ log[k].tick = t }

Ticks(log, type) == { k \in DOMAIN log : log[k].type = type }

\* what the transition appended to the log
Appended == SubSeq(world'.events, Len(world.events) + 1, Len(world'.events))

\* the step appended one TickStarted and one TickCompleted, both of the tick after
\* the previous one, and left the counter at the tick of the last TickCompleted
TickLogged ==
    LET t == world.tick + 1
        completed == Ticks(world'.events, "TickCompleted")
    IN  /\ Cardinality(Ticks(Appended, "TickStarted")) = 1
        /\ Cardinality(Ticks(Appended, "TickCompleted")) = 1
        /\ Cardinality(TickMarks(Appended, "TickStarted", t)) = 1
        /\ Cardinality(TickMarks(Appended, "TickCompleted", t)) = 1
        /\ world'.tick = world'.events[CHOOSE k \in completed : \A j \in completed : j <= k].tick

\* C28: the event log of the world is append-only: after any spawn_agent,
\* kill_agent or step the previous log is a prefix of the new one; each step adds
\* exactly one TickStarted{t} and one TickCompleted{t} with t the previous tick + 1,
\* and world.tick is the t of the last TickCompleted
C28_LogAppendOnly ==
    [][ /\ Extends(world'.events, world.events)
        /\ result'.op = "step" => TickLogged ]_vars

\* a step after two others, onto a log that already held spawns and a death
C28_Witness ==
    /\ AfterStep
    /\ world.tick = 3
    /\ Len(world.events) > Len(result.events)
    /\ \E k \in DOMAIN world.events : world.events[k].type = "AgentDied"
    /\ \E k \in DOMAIN result.events : result.events[k].type = "AgentMoved"

\* ---- C29
\* every execution of step from the world and the request list of this transition
\* ends in the world and returns the TickResult this one did
OneOutcome ==
    \A other \in StepOutcomes(world, StepRequests(world, batch')) :
        other.world = world' /\ other.result = result'

\* C29: step is deterministic: from the same world and the same ordered request
\* list, two executions give the same resulting world and the same TickResult,
\* including the order of the events (the AgentDied events of agents that die of
\* age in one tick among them) and of the rejections
C29_StepDeterministic == [][result'.op = "step" => OneOutcome]_vars

\* the events of the TickResult that report a death of age
DiedOfAge(events) == { k \in DOMAIN events : events[k].type = "AgentDied" /\ events[k].reason = "Age" }

\* the same for the steps in which at most one agent dies of age
C29_StepDeterministicButCull ==
    [][(result'.op = "step" /\ Cardinality(DiedOfAge(result'.events)) <= 1) => OneOutcome]_vars

\* ---- C30
MoveBy(k) ==
    /\ trace[k].request.action.kind = "Move"
    /\ Alive(trace[k].pre, trace[k].request.agent_id)

\* where the agent of request k stands when the request is resolved, and after it
Stand(k) == trace[k].pre.agents[trace[k].request.agent_id].position

StandAfter(k) == trace[k].post.agents[trace[k].request.agent_id].position

\* the cell the Move of request k asks for
Goal(k) ==
    Pos(Stand(k).x + trace[k].request.action.dx,
        Stand(k).y + trace[k].request.action.dy,
        Stand(k).z + trace[k].request.action.dz)

\* request j is a successful Move away from the cell that request k moves into
Vacates(j, k) ==
    /\ MoveBy(j) /\ MoveBy(k)
    /\ trace[j].request.agent_id # trace[k].request.agent_id
    /\ trace[j].ok
    /\ Stand(j) = Goal(k)
    /\ StandAfter(j) # Goal(k)

\* request j stands, when request k is resolved, on the cell request k moves into
Blocks(j, k) ==
    /\ MoveBy(j) /\ MoveBy(k)
    /\ trace[j].request.agent_id # trace[k].request.agent_id
    /\ trace[k].pre.agents[trace[j].request.agent_id].position = Goal(k)

Occupied(k) == ~trace[k].ok /\ trace[k].error.type = "PositionOccupied"

\* requests j and k, in this order, are harvests that select the same source
SameSource(j, k) ==
    /\ HarvestBy(j) /\ HarvestBy(k)
    /\ Chosen(j).some /\ Chosen(k).some
    /\ Chosen(j).v.id = Chosen(k).v.id

(* C30: the requests are resolved in request-list order and each sees the effects
   of the earlier ones of the batch: when A's successful Move away from a cell
   comes just before B's Move into it, B's Move is not rejected with
   PositionOccupied, while B's Move resolved before A's is rejected; a second
   harvest of a source in the batch sees the level left by the first. *)
C30_RequestOrder ==
    AfterStep =>
      /\ Len(trace) = Len(batch)
      /\ \A k \in DOMAIN trace :
           /\ trace[k].request = batch[k]
           /\ k > 1 => trace[k].pre = trace[k - 1].post
      /\ \A j, k \in DOMAIN trace :
           /\ (k = j + 1 /\ Vacates(j, k)) => ~Occupied(k)
           /\ (k < j /\ Blocks(j, k)) => Occupied(k)
           /\ (k = j + 1 /\ SameSource(j, k) /\ trace[j].ok) =>
                /\ Chosen(k).v.current = Chosen(j).v.current - HARVEST_PER_ACTION
                /\ Chosen(k).v.current < HARVEST_PER_ACTION =>
                     (~trace[k].ok /\ trace[k].error.type = "OreSourceDepleted")

\* agent 2 left (1,0,0) and agent 1 then moved into it, and the second of two
\* harvests of a source that held one harvest found it empty
C30_Witness ==
    /\ AfterStep
    /\ Len(trace) = 4
    /\ Vacates(1, 2) /\ trace[2].ok
    /\ SameSource(3, 4) /\ trace[3].ok /\ ~trace[4].ok

\* ---- C31
\* the world when the requests of the last step began
AtStart == trace[1].pre

\* the partner of request k was an agent when the step began
KnownAtStart(k) == HasAgent(AtStart, Partner(k))

\* the zone of the initiator when request k is resolved is the zone the partner
\* was in when the step began
SameZoneAtStart(k) ==
    ZoneOf(trace[k].pre.agents[Initiator(k)].position)
      = ZoneOf(AtStart.agents[Partner(k)].position)

Refused(k, type) == ~trace[k].ok /\ trace[k].error.type = type

(* C31: the partner checks of a Reproduce request use the partner's position and
   aliveness as they were at the start of the step: a partner that moved into
   another zone earlier in the batch is judged by the zone it started in, and an
   agent spawned during the step is no partner (PartnerNotFound). *)
C31_PartnerJudgedAtStart ==
    AfterStep =>
      \A k \in DOMAIN trace :
        ReproduceBy(k) =>
          /\ ~KnownAtStart(k) => Refused(k, "PartnerNotFound")
          /\ (KnownAtStart(k) /\ ~AtStart.agents[Partner(k)].alive)
               => Refused(k, "PartnerNotFound")
          /\ (KnownAtStart(k) /\ AtStart.agents[Partner(k)].alive /\ ~SameZoneAtStart(k))
               => Refused(k, "PartnerOutOfZone")
          /\ (KnownAtStart(k) /\ AtStart.agents[Partner(k)].alive /\ SameZoneAtStart(k))
               => (trace[k].ok \/ trace[k].error.type \in {"ReproductionDeclined", "InsufficientQi"})

\* the partner left the zone earlier in the batch and passed the zone check all
\* the same
C31_Witness ==
    /\ AfterStep
    /\ \E k \in DOMAIN trace :
         /\ ReproduceBy(k)
         /\ KnownAtStart(k) /\ SameZoneAtStart(k)
         /\ ZoneOf(trace[k].pre.agents[Partner(k)].position)
              # ZoneOf(trace[k].pre.agents[Initiator(k)].position)
         /\ Refused(k, "ReproductionDeclined")

\* ---- C32
\* request k of the step was rejected because its source held too little
Depleted(k) == HarvestBy(k) /\ Refused(k, "OreSourceDepleted")

\* the successful harvests before request k that took from source i
TookBefore(k, i) ==
    { j \in 1..(k - 1) : HarvestBy(j) /\ trace[j].ok /\ Chosen(j).v.id = i }

\* the Qi the events of a tick report as spent
SpentIn(events) ==
    SumSeq([i \in 1..Len(events) |->
              IF events[i].type = "QiSpent" THEN events[i].amount ELSE 0])

\* the step recharged once, before its first request: the requests start from the
\* recharged world, none of them raises a source, the step ends with the sources
\* as the last request left them, and the pool ends as the recharge left it plus
\* what the tick spent
RechargedFirst ==
    /\ trace' # <<>> => trace'[1].pre = RechargeQiSources(world)
    /\ \A k \in DOMAIN trace' : \A i \in DOMAIN world.qi_sources :
         trace'[k].post.qi_sources[i].current <= trace'[k].pre.qi_sources[i].current
    /\ world'.qi_sources = IF trace' = <<>> THEN RechargeQiSources(world).qi_sources
                           ELSE trace'[Len(trace')].post.qi_sources
    /\ world'.recycled_qi = RechargeQiSources(world).recycled_qi + SpentIn(result'.events)

(* C32: within a step the recharge of all ore sources happens once and before any
   request is resolved: every harvest is checked against the level after this
   tick's recharge (the available amount reported by OreSourceDepleted is the
   recharged level), and Qi spent in this tick refills no source until the next
   step. *)
C32_RechargeBeforeRequests ==
    [][ result'.op = "step" =>
          /\ RechargedFirst
          /\ \A k \in DOMAIN trace' :
               Depleted(k)' =>
                 trace'[k].error.available
                   = RechargeQiSources(world).qi_sources[trace'[k].error.source_id].current ]_vars

(* C32 amended: the available amount reported by OreSourceDepleted is the
   recharged level less HARVEST_PER_ACTION for every earlier successful harvest
   of that source in the same batch; the rest as stated. *)
C32_RechargeBeforeRequestsLessTaken ==
    [][ result'.op = "step" =>
          /\ RechargedFirst
          /\ \A k \in DOMAIN trace' :
               Depleted(k)' =>
                 trace'[k].error.available
                   = RechargeQiSources(world).qi_sources[trace'[k].error.source_id].current
                       - HARVEST_PER_ACTION
                           * Cardinality(TookBefore(k, trace[k].error.source_id)') ]_vars

\* a harvest was turned away with the level this tick's recharge had just made,
\* refilled from the Qi an earlier tick spent
C32_Witness ==
    /\ AfterStep
    /\ world.tick >= 2
    /\ \E k \in DOMAIN trace :
         /\ Depleted(k)
         /\ TookBefore(k, trace[k].error.source_id) = {}
         /\ trace[k].error.available = 2

\* ---- C33
\* the Qi that request k harvested for its agent
QiGained(k) ==
    SumSeq([i \in 1..Len(trace[k].events) |->
              IF trace[k].events[i].type = "OreGained" /\ trace[k].events[i].ore = "Qi"
              THEN trace[k].events[i].amount ELSE 0])

\* the Qi that request k took from its agent as the cost of the action
Deducted(k) ==
    trace[k].pre.agents[Initiator(k)].qi + QiGained(k) - trace[k].post.agents[Initiator(k)].qi

\* what request k added to the recycled pool
Recycled(k) == trace[k].post.recycled_qi - trace[k].pre.recycled_qi

\* what the recharge of w moved from the pool into the Qi sources
DrawnFromPool(w) ==
    SumSeq([i \in 1..Len(w.qi_sources) |->
              IF w.qi_sources[i].ore = "Qi"
              THEN Gain(w, RechargeQiSources(w), i) - Minted(w, RechargeQiSources(w), i)
              ELSE 0])

\* the pool after the transition is the pool before it, less what the recharge
\* drew from it, plus what each request recycled, none of them negative
PoolAccounted ==
    /\ DrawnFromPool(world) >= 0
    /\ \A k \in DOMAIN trace' : Recycled(k)' >= 0
    /\ world'.recycled_qi
         = world.recycled_qi - DrawnFromPool(world)
             + SumSeq([k \in 1..Len(trace') |-> Recycled(k)'])

(* C33: spent Qi is recycled, not destroyed: for every successfully applied
   request the amount deducted from the agent's qi as action cost equals the
   amount the request adds to recycled_qi and the amount of its QiSpent event, and
   recycled_qi decreases only inside recharge_qi_sources, by exactly the amount
   moved from it into Qi sources. *)
C33_SpentQiRecycled ==
    [][ IF result'.op = "step"
        THEN /\ \A k \in DOMAIN trace' :
                  trace'[k].ok =>
                    /\ Deducted(k)' = Recycled(k)'
                    /\ Deducted(k)' = SpentIn(trace'[k].events)
             /\ PoolAccounted
        ELSE world'.recycled_qi = world.recycled_qi ]_vars

\* a request of the last step recycled its cost, and the pool holds less than
\* the log reports as spent: a recharge has drawn on it
C33_Witness ==
    /\ AfterStep
    /\ world.tick >= 2
    /\ \E k \in DOMAIN trace : trace[k].ok /\ Recycled(k) = 1
    /\ world.recycled_qi < SpentIn(world.events)

\* ---- C34
\* request k changed the age of its agent by n and of no other agent
AgedBy(k, n) ==
    \A i \in Known(trace[k].pre) :
        trace[k].post.agents[i].age
          = trace[k].pre.agents[i].age + (IF i = trace[k].request.agent_id THEN n ELSE 0)

(* C34: every successfully applied request increases the acting agent's age by
   exactly 1 and a rejected request does not change it: an agent with k
   successful requests in one step ages by k in that step, and an agent with no
   successful request in it does not age. *)
C34_AgePerSuccess ==
    [][ result'.op = "step" =>
          /\ \A k \in DOMAIN trace' : AgedBy(k, IF trace[k].ok THEN 1 ELSE 0)'
          /\ \A i \in Known(world) :
               world'.agents[i].age = world.agents[i].age + Cardinality(SuccessesOf(i)') ]_vars

\* an agent with two successful requests and a rejected one in a step aged by two
C34_Witness ==
    /\ AfterStep
    /\ \E i \in Known(world) :
         /\ Cardinality(SuccessesOf(i)) = 2
         /\ \E k \in DOMAIN trace : ~trace[k].ok /\ trace[k].request.agent_id = i
         /\ world.agents[i].age = 2

\* ---- C35
(* C35: lifespans are bounded: an agent that has at least one successful request
   in every step is dead at the latest after max_age steps counted from its
   spawn, and max_age is at least 1 for every agent (a requested max_age of 0 is
   raised to 1). Here every agent is spawned before the first tick and idles in
   every tick, so world.tick counts the steps since its spawn. *)
C35_LifespanBounded ==
    \A i \in Known(world) :
        /\ world.agents[i].max_age >= 1
        /\ world.agents[i].alive =>
             /\ world.tick < world.agents[i].max_age
             /\ AfterStep => SuccessesOf(i) # {}

\* an agent spawned with max_age 0 is dead after the first step, another dies at
\* the last step its max_age allows
C35_Witness ==
    /\ AfterStep
    /\ Len(world.agents) = 2
    /\ world.tick = world.agents[1].max_age
    /\ world.tick > 1
    /\ world.agents[1].age = world.tick
    /\ ~world.agents[1].alive
    /\ world.agents[2].max_age = 1
    /\ ~world.agents[2].alive

\* ---- C36
\* the events of the successful requests of a trace, in request order
RECURSIVE AppliedEvents(_)
AppliedEvents(tr) ==
    IF tr = <<>> THEN <<>>
    ELSE (IF Head(tr).ok THEN Head(tr).events ELSE <<>>) \o AppliedEvents(Tail(tr))

\* events is TickStarted{t}, the events of the applied requests in request order,
\* deaths of age, TickCompleted{t}
TickShaped(events, tr, t) ==
    LET n == Len(AppliedEvents(tr))
    IN  /\ Len(events) >= n + 2
        /\ events[1] = [ type |-> "TickStarted", tick |-> t ]
        /\ SubSeq(events, 2, n + 1) = AppliedEvents(tr)
        /\ \A k \in (n + 2)..(Len(events) - 1) :
             events[k].type = "AgentDied" /\ events[k].reason = "Age"
        /\ events[Len(events)] = [ type |-> "TickCompleted", tick |-> t ]

(* C36: the events that a step appends to the world event log are exactly
   TickResult.events in the same order: the appended segment starts with
   TickStarted{t}, ends with TickCompleted{t}, holds the events of the applied
   requests in request order followed by the age deaths, and every event caused
   by the step (the AgentSpawned of a child born in it included) lies between
   that tick's TickStarted and TickCompleted. *)
C36_StepLogIsTickResult ==
    [][ result'.op = "step" =>
          /\ Appended = result'.events
          /\ TickShaped(Appended, trace', world.tick + 1) ]_vars

\* the same for the steps in which no child is born; TickResult.events has that
\* shape in every step
C36_StepLogIsTickResultButBirths ==
    [][ result'.op = "step" =>
          /\ TickShaped(result'.events, trace', world.tick + 1)
          /\ Len(world'.agents) = Len(world.agents) => Appended = result'.events ]_vars

\* ---- C37
\* request k is made by an alive agent
ActsAlive(k) == Alive(trace[k].pre, trace[k].request.agent_id)

\* qi_cost() of the action of request k is what the step deducts when it succeeds,
\* and an agent that holds that much is not rejected with InsufficientQi
CostAgrees(k) ==
    /\ trace[k].ok => Deducted(k) = QiCost(trace[k].request.action)
    /\ trace[k].pre.agents[Initiator(k)].qi >= QiCost(trace[k].request.action)
         => ~Refused(k, "InsufficientQi")

(* C37: Action::qi_cost() agrees with the engine: for every action kind the value
   it returns is the Qi that step deducts from the agent when the action
   succeeds, so an agent with qi >= qi_cost() is never rejected with
   InsufficientQi for that action. *)
C37_QiCostAgrees ==
    AfterStep => \A k \in DOMAIN trace : ActsAlive(k) => CostAgrees(k)

\* the same for the kinds other than Move and Reproduce
C37_QiCostAgreesButMoveAndReproduce ==
    AfterStep =>
      \A k \in DOMAIN trace :
        (ActsAlive(k) /\ trace[k].request.action.kind \notin {"Move", "Reproduce"})
          => CostAgrees(k)

\* ---- C38
\* request k names its own agent as the partner
SelfNamed(k) ==
    /\ trace[k].request.action.kind = "Reproduce"
    /\ trace[k].request.action.partner = trace[k].request.agent_id

(* C38: reproduction always involves two distinct agents: a request
   Reproduce{partner: p} with p the requesting agent's own id never produces a
   child, and every AgentReproduced event has parent_a # parent_b. *)
C38_TwoDistinctParents ==
    AfterStep =>
      /\ \A k \in DOMAIN trace : SelfNamed(k) => (~trace[k].ok /\ NoAgentCreated(k))
      /\ \A e \in DOMAIN result.events :
           result.events[e].type = "AgentReproduced"
             => result.events[e].parent_a # result.events[e].parent_b

\* a request that names another agent bears a child of two distinct parents, or none
C38_TwoDistinctParentsUnlessSelfNamed ==
    AfterStep =>
      \A k \in DOMAIN trace :
        (trace[k].request.action.kind = "Reproduce" /\ ~SelfNamed(k)) =>
          \A e \in DOMAIN trace[k].events :
            trace[k].events[e].type = "AgentReproduced"
              => /\ trace[k].events[e].parent_a = Initiator(k)
                 /\ trace[k].events[e].parent_b = Partner(k)

\* ---- C39
\* the AgentDied events of agent i in the log
DiedIn(events, i) ==
    { e \in DOMAIN events : events[e].type = "AgentDied" /\ events[e].agent_id = i }

\* the call just made is kill_agent
Killing == calls' = calls + 1 /\ result'.op = "kill_agent"

KillsTheLiving(i) ==
    /\ result'.ok
    /\ world' = [world EXCEPT
                   !.agents[i].alive = FALSE,
                   !.occupied = MapRemove(@, world.agents[i].position),
                   !.events = Append(@, [ type |-> "AgentDied", agent_id |-> i,
                                          reason |-> "Hazard" ])]
    /\ ~MapHas(world'.occupied, world.agents[i].position)
    /\ Cardinality(DiedIn(world'.events, i)) = Cardinality(DiedIn(world.events, i)) + 1

KillAgentContract ==
    Killing =>
      LET i == result'.agent_id
      IN  IF ~HasAgent(world, i)
          THEN /\ ~result'.ok
               /\ result'.error = Some([ type |-> "AgentNotFound", agent_id |-> i ])
               /\ world' = world
          ELSE IF ~world.agents[i].alive
          THEN result'.ok /\ world' = world
          ELSE KillsTheLiving(i)

OneDeathEach ==
    \A i \in Known(world) : Cardinality(DiedIn(world.events, i)) <= 1

(* C39: kill_agent on an alive agent marks it dead, removes its cell from the
   occupancy index and appends exactly one AgentDied event; on an agent
   already dead it returns Ok and changes nothing; on an unknown id it returns
   AgentNotFound and changes nothing. Over any sequence of kill_agent and step
   calls the log holds at most one AgentDied event for each agent. *)
C39_KillAgentOnce == [][KillAgentContract]_vars /\ []OneDeathEach

\* kill_agent returns Ok for an agent that a step culled for its age, and the log
\* still ends with that step's TickCompleted and holds the one death
C39_Witness ==
    /\ result.op = "kill_agent"
    /\ result.ok
    /\ HasAgent(world, result.agent_id)
    /\ world.events[Len(world.events)].type = "TickCompleted"
    /\ \E e \in DiedIn(world.events, result.agent_id) : world.events[e].reason = "Age"
    /\ Cardinality(DiedIn(world.events, result.agent_id)) = 1

\* ---- C40
RECURSIVE SumOver(_, _)
SumOver(f, held) ==
    IF held = {} THEN 0
    ELSE LET a == CHOOSE x \in held : TRUE IN f[a] + SumOver(f, held \ {a})

\* the sum of all balances of a store
TotalBalance(store) == SumOver(store.wallets, DOMAIN store.wallets)

\* the call just made is transfer
Transferring == calls' = calls + 1 /\ result'.op = "transfer"

\* Ok, having moved exactly amount from the sender to the recipient
MovedExactly(from, to, amount) ==
    /\ result'.ok
    /\ HasWallet(world, from) /\ HasWallet(world, to)
    /\ world' = [world EXCEPT !.wallets[from] = @ - amount, !.wallets[to] = @ + amount]
    /\ TotalBalance(world') = TotalBalance(world)

\* Err for one of the three reasons
TransferRefused ==
    /\ ~result'.ok
    /\ result'.error.v.type \in { "sender wallet not found", "recipient wallet not found",
                                  "insufficient balance" }

(* C40: wallet::transfer is atomic on the in-memory store: it either returns
   Ok having moved exactly amount from the sender's balance to the
   recipient's, the sum of all balances unchanged, or returns Err (unknown
   sender, unknown recipient, insufficient balance) leaving every balance
   unchanged; amount 0 or from = to is a no-op returning Ok. *)
C40_TransferAtomic ==
    [][Transferring =>
         LET from == result'.from
             to == result'.to
             amount == result'.amount
         IN  IF amount = 0 \/ from = to
             THEN result'.ok /\ world' = world
             ELSE \/ MovedExactly(from, to, amount)
                  \/ TransferRefused /\ world' = world]_vars

\* the same, but for a recipient unknown to the store: the Err then leaves the
\* sender debited, when the sender is known and holds the amount
C40_TransferAtomicButRecipient ==
    [][Transferring =>
         LET from == result'.from
             to == result'.to
             amount == result'.amount
         IN  IF amount = 0 \/ from = to
             THEN result'.ok /\ world' = world
             ELSE \/ MovedExactly(from, to, amount)
                  \/ /\ TransferRefused
                     /\ result'.error.v.type # "recipient wallet not found"
                     /\ world' = world
                  \/ /\ TransferRefused
                     /\ result'.error.v.type = "recipient wallet not found"
                     /\ world' = [world EXCEPT !.wallets[from] = @ - amount]
                     /\ TotalBalance(world') = TotalBalance(world) - amount]_vars

====
